---- MODULE Spec2Model ----
(***************************************************************************)
(* A model of the linkx backend: the scraping engine (platform             *)
(* identification, per-platform extractors, the headless browser owned by  *)
(* the Freepik scraper, image download) and the AI provider manager        *)
(* (generatePrompt, validateApiKey).                                       *)
(*                                                                         *)
(* Texts are modelled as sequences of string fragments (the pieces of a    *)
(* template literal); a text is empty iff all its fragments are empty.     *)
(* URLs are modelled at the granularity of dot-separated labels.           *)
(***************************************************************************)
EXTENDS Integers, Sequences, FiniteSets, TLC

(***************************************************************************)
(* Bounds of the model.                                                    *)
(***************************************************************************)
\* longest host, in labels, of an enumerated URL
MaxHostLen == 3
\* longest dotted name, in labels, in the path/query of an enumerated URL
MaxPathLen == 2

(***************************************************************************)
(* Generic helpers.                                                        *)
(***************************************************************************)
SeqsUpTo(S, n) == UNION {[1..k -> S] : k \in 0..n}

\* s occurs in t as a contiguous run
Occurs(s, t) ==
  \E i \in 0..(Len(t) - Len(s)) : \A j \in 1..Len(s) : t[i + j] = s[j]

IsSuffix(s, t) ==
  /\ Len(s) <= Len(t)
  /\ \A j \in 1..Len(s) : t[Len(t) - Len(s) + j] = s[j]

\* a text (sequence of fragments) is non-empty iff one fragment is
NonEmptyText(m) == \E i \in 1..Len(m) : m[i] # ""

(***************************************************************************)
(* URLs.  A URL is scheme://host/path where host is a sequence of labels   *)
(* (joined by ".") and path stands for one dotted name occurring in the    *)
(* path or query (<<>> if there is none).                                  *)
(***************************************************************************)
Labels == {"shutterstock", "freepik", "com", "localhost", "evil"}
Schemes == {"https", "http", "ftp"}

URLs ==
  [scheme : Schemes, host : SeqsUpTo(Labels, MaxHostLen), path : SeqsUpTo(Labels, MaxPathLen)]

\* the labels of the URL string in reading order; "/" separates host and path
UrlText(url) == url.host \o <<"/">> \o url.path

\* new URL(url) parses and the protocol is http: or https:
isValidURL(url) ==
  /\ url.host # <<>>
  /\ url.scheme \in {"http", "https"}

(***************************************************************************)
(* identifyPlatform: the table of regular expressions in insertion order.  *)
(* Each entry holds the alternatives of its pattern as label sequences.    *)
(***************************************************************************)
platformPatterns ==
  << [id |-> "shutterstock",     alts |-> << <<"shutterstock", "com">> >>],
     [id |-> "freepik",          alts |-> << <<"freepik", "com">> >>],
     [id |-> "adobe-stock",      alts |-> << <<"stock", "adobe", "com">> >>],
     [id |-> "getty-images",     alts |-> << <<"gettyimages", "com">> >>],
     [id |-> "dreamstime",       alts |-> << <<"dreamstime", "com">> >>],
     [id |-> "iconscout",        alts |-> << <<"iconscout", "com">> >>],
     [id |-> "pond5",            alts |-> << <<"pond5", "com">> >>],
     [id |-> "arabstock",        alts |-> << <<"arabstock", "com">> >>],
     [id |-> "vecteezy",         alts |-> << <<"vecteezy", "com">> >>],
     [id |-> "creative-fabrica", alts |-> << <<"creativefabrica", "com">> >>],
     [id |-> "mock",             alts |-> << <<"example", "com">>, <<"test", "com">>, <<"localhost">> >>] >>

\* pattern.test(url): an alternative occurs anywhere in the URL string
PatternTest(p, url) ==
  \E a \in 1..Len(p.alts) : Occurs(p.alts[a], UrlText(url))

\* the domains of getSupportedPlatforms(), by platform id
getSupportedPlatforms ==
  [ p \in {platformPatterns[i].id : i \in 1..Len(platformPatterns)} |->
      CASE p = "shutterstock"     -> <<"shutterstock", "com">>
        [] p = "freepik"          -> <<"freepik", "com">>
        [] p = "adobe-stock"      -> <<"stock", "adobe", "com">>
        [] p = "getty-images"     -> <<"gettyimages", "com">>
        [] p = "dreamstime"       -> <<"dreamstime", "com">>
        [] p = "iconscout"        -> <<"iconscout", "com">>
        [] p = "pond5"            -> <<"pond5", "com">>
        [] p = "arabstock"        -> <<"arabstock", "com">>
        [] p = "vecteezy"         -> <<"vecteezy", "com">>
        [] p = "creative-fabrica" -> <<"creativefabrica", "com">>
        [] p = "mock"             -> <<"example", "com">> ]

PlatformIds == DOMAIN getSupportedPlatforms

\* a domain as the string it is printed as: labels joined by "."
RECURSIVE DomainString(_)
DomainString(d) ==
  IF Len(d) = 0 THEN ""
  ELSE IF Len(d) = 1 THEN d[1]
  ELSE d[1] \o "." \o DomainString(Tail(d))

\* Object.values(platformPatterns).map(p => p.source.replace(/\\\./g, '.')):
\* the alternatives of all patterns, in table order, as printed
PatternSources ==
  LET RECURSIVE flat(_)
      flat(i) == IF i > Len(platformPatterns) THEN <<>>
                 ELSE platformPatterns[i].alts \o flat(i + 1)
  IN [i \in 1..Len(flat(1)) |-> DomainString(flat(1)[i])]

NoPlatform == "none"

\* the index of the first pattern that tests true, 0 if none does
FirstMatch(url) ==
  LET hits == {i \in 1..Len(platformPatterns) : PatternTest(platformPatterns[i], url)}
  IN IF hits = {} THEN 0 ELSE CHOOSE i \in hits : \A j \in hits : i <= j

\* identifyPlatform(url): the platform id, or the error it throws
identifyPlatform(url) ==
  IF FirstMatch(url) # 0
  THEN [ok |-> TRUE, platform |-> platformPatterns[FirstMatch(url)].id, error |-> <<>>]
  ELSE [ok |-> FALSE, platform |-> NoPlatform,
        error |-> <<"Unsupported platform URL. Supported domains: ">> \o PatternSources]

(***************************************************************************)
(* The scraping engine: inputs and data.                                   *)
(***************************************************************************)
\* call slots: requests the server is handling at the same time
MaxCalls == 2
\* browsers launched over a run
MaxLaunches == 2

Calls == 1..MaxCalls

\* the URLs scrape requests are made with
ScrapeURLs ==
  { [scheme |-> "ftp",   host |-> <<"shutterstock", "com">>,        path |-> <<>>],
    [scheme |-> "https", host |-> <<"evil", "org">>,                path |-> <<>>],
    [scheme |-> "https", host |-> <<"evil", "org">>,                path |-> <<"pond5", "com">>],
    [scheme |-> "https", host |-> <<"www", "shutterstock", "com">>, path |-> <<>>],
    [scheme |-> "https", host |-> <<"www", "freepik", "com">>,      path |-> <<>>],
    [scheme |-> "https", host |-> <<"pond5", "com">>,               path |-> <<>>],
    [scheme |-> "https", host |-> <<"localhost">>,                  path |-> <<>>] }

NoURL == [scheme |-> "", host |-> <<>>, path |-> <<>>]

\* the keys of WebScrapingEngine.platformScrapers
platformScrapers == PlatformIds

\* which extractMetadata a platform's scraper runs
ScraperKind(platform) ==
  CASE platform = "freepik"                       -> "js"
    [] platform = "mock"                          -> "mock"
    [] platform \in {"shutterstock", "adobe-stock"} -> "enhanced"
    [] OTHER                                      -> "generic"

\* what the selectors find on a page: a title and an image URL, "" if none
\* (the image URL is the attribute's value as written in the page, absolute
\* or relative to the page); alt and preview are the preview image's
\* attributes the enhanced scrapers read
Pages ==
  [title : {"", "A photo"}, image : {"", "https://cdn/260x280/a.jpg", "/media/a.jpg"},
   alt   : {"", "Alt text"}, preview : {"", "https://image.shutterstock.com/260x280/a.jpg"}]

NoPage == [title |-> "-", image |-> "-", alt |-> "-", preview |-> "-"]

\* messages of the errors thrown by axios, puppeteer and sharp
RawErrors == {"", "timeout of 15000ms exceeded"}

NoMeta == [title |-> "", imageUrl |-> "", imageBase64 |-> "", platform |-> NoPlatform]

\* extractGenericMetadata on a fetched page
extractGenericMetadata(platform, page) ==
  [title |-> page.title, imageUrl |-> page.image, imageBase64 |-> "", platform |-> platform]

\* previewImg.replace(/\/\d+x\d+\//, '/1500x1500/'): the larger rendition
LargerImage(preview) ==
  IF preview = "https://image.shutterstock.com/260x280/a.jpg"
  THEN "https://image.shutterstock.com/1500x1500/a.jpg"
  ELSE preview

\* the Shutterstock / Adobe Stock enhancements applied to the generic metadata
Enhance(meta, page2) ==
  [meta EXCEPT
     !.title    = IF meta.title = "" /\ page2.alt # "" THEN page2.alt ELSE meta.title,
     !.imageUrl = IF page2.preview # "" /\ LargerImage(page2.preview) # page2.preview
                  THEN LargerImage(page2.preview) ELSE meta.imageUrl]

\* the metadata FreepikScraper builds from what page.evaluate returned
FreepikMetadata(page) ==
  [title |-> IF page.title # "" THEN page.title ELSE "Untitled",
   imageUrl |-> page.image, imageBase64 |-> "", platform |-> "freepik"]

\* the constant metadata of MockScraper
MockMetadata ==
  [title |-> "Mock Stock Photo Title",
   imageUrl |-> "https://via.placeholder.com/800x600.jpg",
   imageBase64 |-> "data:image/jpeg;base64,/9j/4AAQ",
   platform |-> "mock"]

\* the platform name in "Failed to scrape <name>: "
ScrapeErrorPrefix(platform) ==
  CASE platform = "freepik"      -> "Failed to scrape Freepik: "
    [] platform = "shutterstock" -> "Failed to scrape Shutterstock: "
    [] platform = "adobe-stock"  -> "Failed to scrape Adobe Stock: "
    [] platform = "pond5"        -> "Failed to scrape Pond5: "
    [] OTHER                     -> "Failed to scrape: "

(***************************************************************************)
(* Result envelopes.  kind is "resolved" when the promise resolved to an   *)
(* envelope and "rejected" when the call threw.                            *)
(***************************************************************************)
NoResult ==
  [kind |-> "none", success |-> FALSE, hasData |-> FALSE, data |-> NoMeta, error |-> <<>>]

\* scrapeStockURL's return in the try block
EngineSuccess(meta) ==
  [kind |-> "resolved", success |-> TRUE, hasData |-> TRUE, data |-> meta, error |-> <<>>]

\* A faulty variant: no catch block: the error leaves scrapeStockURL
EngineRethrow(message) ==
  [kind |-> "rejected", success |-> FALSE, hasData |-> FALSE, data |-> NoMeta,
   error |-> message]

\* scrapeStockURL's catch block
EngineFailure(message) ==
  [kind |-> "resolved", success |-> FALSE, hasData |-> FALSE, data |-> NoMeta,
   error |-> message]

\* the minimal-content check of scrapeStockURL
MinimalContent(meta) == meta.title # "" \/ meta.imageUrl # ""

(***************************************************************************)
(* State.                                                                  *)
(***************************************************************************)
VARIABLES
  pc,         \* per call slot: where the call is suspended ("idle", "done", or an await)
  req,        \* per call slot: the operation called and its arguments
  loc,        \* per call slot: the locals of the call
  result,     \* per call slot: what the call's promise settled to
  browser,    \* FreepikScraper's this.browser: a browser id, 0 when undefined
  browsers,   \* every browser launched so far: <<[open |-> ...], ...>>, by id
  idUrl,      \* the URL handed to identifyPlatform on its own
  idResult,   \* what identifyPlatform returned for it, or NotCalled
  client,     \* the frontend API client: the request it last put on the wire
  extract,    \* a cheerio document and what the selector helpers extracted from it
  endpoint,   \* POST /analyze-and-generate: the handler's position, timers and responses
  inpage,     \* a Freepik page's DOM and what each extractor computed from it
  nav,        \* a Freepik scrape under the combined endpoint's deadline, with a clock
  app,        \* the frontend: AppContext state, the main form, the browser's storage
  server      \* the server process: shutdown position, requests and browsers open

\* the state outside the scraping engine and the provider manager
\* the state of the subsystems that have a specification of their own
rest == <<inpage, nav, app, server>>

others == <<client, extract, endpoint, rest>>

\* everything but one subsystem's variable
engine == <<pc, req, loc, result, browser, browsers, idUrl, idResult>>
exceptInPage == <<engine, client, extract, endpoint, nav, app, server>>
exceptNav == <<engine, client, extract, endpoint, inpage, app, server>>
exceptApp == <<engine, client, extract, endpoint, inpage, nav, server>>
exceptServer == <<engine, client, extract, endpoint, inpage, nav, app>>

vars == <<pc, req, loc, result, browser, browsers, idUrl, idResult, others>>

NotCalled == [ok |-> FALSE, platform |-> "not-called", error |-> <<>>]

NoReq == [op |-> "none", url |-> NoURL]

\* no vendor response received (yet)
NoVendor == [kind |-> "none"]

\* steps is the log of the steps of scrapeStockURL the call has started
NoLoc ==
  [platform |-> NoPlatform, page |-> NoPage, mine |-> 0, cb |-> 0, meta |-> NoMeta,
   failed |-> FALSE, err |-> <<>>, downloaded |-> FALSE, dispatched |-> FALSE,
   vendor |-> NoVendor, steps |-> <<>>]

InFlight(c) == pc[c] \notin {"idle", "done"}

\* the state right after the server has constructed its singletons
InitServer ==
  /\ pc = [c \in Calls |-> "idle"]
  /\ req = [c \in Calls |-> NoReq]
  /\ loc = [c \in Calls |-> NoLoc]
  /\ result = [c \in Calls |-> NoResult]
  /\ browser = 0
  /\ browsers = <<>>

SetCall(c, p, l, r) ==
  /\ pc' = [pc EXCEPT ![c] = p]
  /\ loc' = [loc EXCEPT ![c] = l]
  /\ result' = [result EXCEPT ![c] = r]

(***************************************************************************)
(* scrapeStockURL.                                                         *)
(***************************************************************************)
\* the await each scraper kind suspends at first
FirstAwait(platform) ==
  CASE ScraperKind(platform) = "js"   -> "launch"
    [] ScraperKind(platform) = "mock" -> "mock_wait"
    [] OTHER                          -> "fetch"

\* scrapeStockURL from the point where extractMetadata has settled with locals l:
\* the catch block, the minimal-content check, the image download or the return
EngineContinue(c, l) ==
  IF l.failed
  THEN SetCall(c, "done", l, EngineFailure(l.err))
  ELSE IF ~MinimalContent(l.meta)
  THEN SetCall(c, "done", [l EXCEPT !.steps = Append(@, "check")], EngineFailure(
         <<"Failed to extract meaningful data from the URL. Please check if the URL is valid and accessible.">>))
  ELSE IF l.meta.imageUrl # ""
  THEN SetCall(c, "download", [l EXCEPT !.steps = @ \o <<"check", "download">>], NoResult)
  ELSE SetCall(c, "done", [l EXCEPT !.steps = Append(@, "check")], EngineSuccess(l.meta))

\* scrapeStockURL up to its first await: URL validation, platform
\* identification, scraper lookup, and the call of extractMetadata
ScrapeEntry(c, url) ==
  /\ req' = [req EXCEPT ![c] = [op |-> "scrape", url |-> url]]
  /\ IF ~isValidURL(url)
     THEN SetCall(c, "done", [NoLoc EXCEPT !.steps = <<"validate">>],
                  EngineFailure(<<"Invalid URL provided">>))
     ELSE IF ~identifyPlatform(url).ok
     THEN SetCall(c, "done", [NoLoc EXCEPT !.steps = <<"validate", "identify">>],
                  EngineFailure(identifyPlatform(url).error))
     ELSE IF identifyPlatform(url).platform \notin platformScrapers
     THEN SetCall(c, "done", [NoLoc EXCEPT !.steps = <<"validate", "identify">>],
                  EngineFailure(<<"Unsupported platform: ", identifyPlatform(url).platform>>))
     ELSE SetCall(c, FirstAwait(identifyPlatform(url).platform),
                  [NoLoc EXCEPT !.platform = identifyPlatform(url).platform,
                                !.steps = <<"validate", "identify", "extract">>], NoResult)
  /\ UNCHANGED <<browser, browsers, idUrl, idResult>>

\* browsers launched or being launched
Launches == Len(browsers) + Cardinality({c \in Calls : pc[c] = "launch"})

LaunchAllowed(url) ==
  (isValidURL(url) /\ identifyPlatform(url).ok
     /\ ScraperKind(identifyPlatform(url).platform) = "js") => Launches < MaxLaunches

\* a request arrives while no other call is being handled
StartScrape(c) ==
  /\ \A d \in Calls : pc[d] = "idle"
  /\ \E url \in ScrapeURLs : LaunchAllowed(url) /\ ScrapeEntry(c, url)
  /\ UNCHANGED others

\* a request arrives while other calls may be in flight
StartScrapeConcurrent(c) ==
  /\ pc[c] = "idle"
  /\ \E url \in ScrapeURLs : LaunchAllowed(url) /\ ScrapeEntry(c, url)
  /\ UNCHANGED others

\* the caller has taken the result; the slot is free again
ReturnToCaller(c) ==
  /\ pc[c] = "done"
  /\ pc' = [pc EXCEPT ![c] = "idle"]
  /\ req' = [req EXCEPT ![c] = NoReq]
  /\ loc' = [loc EXCEPT ![c] = NoLoc]
  /\ result' = [result EXCEPT ![c] = NoResult]
  /\ UNCHANGED <<browser, browsers, idUrl, idResult, others>>

(***************************************************************************)
(* The extractors that fetch the page over HTTP.                           *)
(***************************************************************************)
Failed(l, prefix, raw) ==
  [l EXCEPT !.failed = TRUE, !.err = <<ScrapeErrorPrefix(l.platform)>> \o prefix \o <<raw>>]

\* extractGenericMetadata's fetchHTML resolves or rejects
FetchDone(c) ==
  /\ pc[c] = "fetch"
  /\ \/ \E p \in {q \in Pages : q.alt = "" /\ q.preview = ""} :
          LET l == [loc[c] EXCEPT !.page = p,
                                  !.meta = extractGenericMetadata(loc[c].platform, p)]
          IN IF ScraperKind(l.platform) = "enhanced"
             THEN SetCall(c, "fetch2", l, NoResult)
             ELSE EngineContinue(c, l)
     \/ \E raw \in RawErrors :
          EngineContinue(c, Failed(loc[c], <<"Failed to fetch HTML: ">>, raw))
  /\ UNCHANGED <<req, browser, browsers, idUrl, idResult, others>>

\* the second fetchHTML of the Shutterstock / Adobe Stock scrapers
Fetch2Done(c) ==
  /\ pc[c] = "fetch2"
  /\ \/ \E a \in {"", "Alt text"}, pv \in {"", "https://image.shutterstock.com/260x280/a.jpg"} :
          LET p2 == [loc[c].page EXCEPT !.alt = a, !.preview = pv]
          IN EngineContinue(c, [loc[c] EXCEPT !.page = p2, !.meta = Enhance(loc[c].meta, p2)])
     \/ \E raw \in RawErrors :
          EngineContinue(c, Failed(loc[c], <<"Failed to fetch HTML: ">>, raw))
  /\ UNCHANGED <<req, browser, browsers, idUrl, idResult, others>>

\* MockScraper's one-second timer fires
MockDone(c) ==
  /\ pc[c] = "mock_wait"
  /\ EngineContinue(c, [loc[c] EXCEPT !.meta = MockMetadata])
  /\ UNCHANGED <<req, browser, browsers, idUrl, idResult, others>>

(***************************************************************************)
(* The image download of scrapeStockURL.                                   *)
(***************************************************************************)
\* downloadAndConvertImage resolved: the base64 of the transcoded JPEG
ImageConverted(meta) == [meta EXCEPT !.imageBase64 = "/9j/transcoded"]

DownloadDone(c) ==
  /\ pc[c] = "download"
  /\ \/ LET l == [loc[c] EXCEPT !.meta = ImageConverted(loc[c].meta), !.downloaded = TRUE]
        IN SetCall(c, "done", l, EngineSuccess(l.meta))
     \/ \* network error, body over the size ceiling, or undecodable data: swallowed
        SetCall(c, "done", loc[c], EngineSuccess(loc[c].meta))
  /\ UNCHANGED <<req, browser, browsers, idUrl, idResult, others>>

(***************************************************************************)
(* The headless browser of the Freepik scraper.                            *)
(***************************************************************************)
IsOpen(b) == b # 0 /\ browsers[b].open

\* browser.close() resolved for browser b
CloseBrowserProcess(bs, b) == [bs EXCEPT ![b].open = FALSE]

\* A faulty variant: the catch block of closeBrowser does not kill the process
KillNothing(bs, b) == bs

\* this.browser.process()?.kill() with this.browser = b (a TypeError, swallowed,
\* when the field is undefined)
KillBrowserProcess(bs, b) == IF b = 0 THEN bs ELSE [bs EXCEPT ![b].open = FALSE]

\* the finally block of closeBrowser: this.browser = undefined
FinallyBrowserField(b) == 0

\* closeBrowser up to its first await: nothing to do when the field is
\* undefined, else this.browser.pages() is awaited
CloseBrowserEntry(c, l) ==
  /\ IF browser = 0
     THEN EngineContinue(c, l)
     ELSE SetCall(c, "cb_pages", l, NoResult)
  /\ UNCHANGED <<browser, browsers>>

\* initBrowser: puppeteer.launch resolves or rejects.  On success the field is
\* assigned and newPage is called on it; on failure extractMetadata's outer
\* catch and finally run, entering closeBrowser.
LaunchDone(c) ==
  /\ pc[c] = "launch"
  /\ \/ /\ browsers' = Append(browsers, [open |-> TRUE])
        /\ browser' = Len(browsers) + 1
        /\ SetCall(c, "new_page", [loc[c] EXCEPT !.mine = Len(browsers) + 1], NoResult)
     \/ \E raw \in RawErrors :
          CloseBrowserEntry(c, Failed(loc[c], <<"Browser initialization failed: ">>, raw))
  /\ UNCHANGED <<req, idUrl, idResult, others>>

\* initBrowser: newPage and the page set-up (user agent, viewport, request
\* interception) resolve, or one of them rejects
NewPageDone(c) ==
  /\ pc[c] = "new_page"
  /\ \/ /\ IsOpen(loc[c].mine)
        /\ SetCall(c, "goto", loc[c], NoResult)
        /\ UNCHANGED <<browser, browsers>>
     \/ \E raw \in RawErrors :
          CloseBrowserEntry(c, Failed(loc[c], <<"Browser initialization failed: ">>, raw))
  /\ UNCHANGED <<req, idUrl, idResult, others>>

\* page.goto resolves or rejects (navigation timeout, browser gone)
GotoDone(c) ==
  /\ pc[c] = "goto"
  /\ \/ /\ IsOpen(loc[c].mine)
        /\ SetCall(c, "evaluate", loc[c], NoResult)
     \/ \E raw \in RawErrors :
          SetCall(c, "page_close", Failed(loc[c], <<>>, raw), NoResult)
  /\ UNCHANGED <<req, browser, browsers, idUrl, idResult, others>>

\* page.evaluate resolves with what the in-page selectors found, or rejects
EvaluateDone(c) ==
  /\ pc[c] = "evaluate"
  /\ \/ /\ IsOpen(loc[c].mine)
        /\ \E p \in {q \in Pages : q.alt = "" /\ q.preview = ""} :
             SetCall(c, "page_close",
                     [loc[c] EXCEPT !.page = p, !.meta = FreepikMetadata(p)], NoResult)
     \/ \E raw \in RawErrors :
          SetCall(c, "page_close", Failed(loc[c], <<>>, raw), NoResult)
  /\ UNCHANGED <<req, browser, browsers, idUrl, idResult, others>>

\* the inner finally: page.close() settles (a rejection is swallowed), then
\* the outer finally enters closeBrowser
PageCloseDone(c) ==
  /\ pc[c] = "page_close"
  /\ CloseBrowserEntry(c, loc[c])
  /\ UNCHANGED <<req, idUrl, idResult, others>>

\* closeBrowser: this.browser.pages() resolves, or rejects into the catch
\* (kill) and finally (clear the field)
PagesDone(c) ==
  /\ pc[c] = "cb_pages"
  /\ \/ /\ SetCall(c, "cb_pages_close", loc[c], NoResult)
        /\ UNCHANGED <<browser, browsers>>
     \/ /\ browsers' = KillBrowserProcess(browsers, browser)
        /\ browser' = FinallyBrowserField(browser)
        /\ EngineContinue(c, loc[c])
  /\ UNCHANGED <<req, idUrl, idResult, others>>

\* closeBrowser: every page.close() has settled; this.browser.close() is
\* called on the field's current value (a TypeError when it is undefined by now)
PagesClosed(c) ==
  /\ pc[c] = "cb_pages_close"
  /\ IF browser = 0
     THEN /\ browsers' = KillBrowserProcess(browsers, browser)
          /\ browser' = FinallyBrowserField(browser)
          /\ EngineContinue(c, loc[c])
     ELSE /\ SetCall(c, "cb_close", [loc[c] EXCEPT !.cb = browser], NoResult)
          /\ UNCHANGED <<browser, browsers>>
  /\ UNCHANGED <<req, idUrl, idResult, others>>

\* closeBrowser: browser.close() resolves, or rejects into the catch (kill the
\* process of the field's current value); finally the field is cleared
CloseDone(c) ==
  /\ pc[c] = "cb_close"
  /\ \/ browsers' = CloseBrowserProcess(browsers, loc[c].cb)
     \/ browsers' = KillBrowserProcess(browsers, browser)
  /\ browser' = FinallyBrowserField(browser)
  /\ EngineContinue(c, loc[c])
  /\ UNCHANGED <<req, idUrl, idResult, others>>

(***************************************************************************)
(* The AI provider manager: inputs.                                        *)
(*                                                                         *)
(* An API key is described by what the format patterns can tell apart: how *)
(* it starts ("sk-ant-", "sk-" or neither), how many characters follow,    *)
(* and the widest class those characters fall in: "word" ([A-Za-z0-9_-]),  *)
(* "dotted" (word characters and "."), "other" (some other visible         *)
(* character) or "blank" (white space only).                               *)
(***************************************************************************)
\* the {10,} of the three key patterns
MinKeyBody == 10
\* longest key body enumerated
MaxKeyBody == 11

ApiKeys ==
  { k \in [prefix : {"", "sk-", "sk-ant-"}, len : 0..MaxKeyBody,
           class : {"word", "dotted", "other", "blank"}] :
      /\ k.len = 0 => k.class = "word"
      /\ k.class = "blank" => k.prefix = "" }

PrefixLen(k) == CASE k.prefix = "sk-" -> 3 [] k.prefix = "sk-ant-" -> 7 [] OTHER -> 0

\* !apiKey || apiKey.trim().length === 0
KeyIsBlank(k) == k.prefix = "" /\ (k.len = 0 \/ k.class = "blank")

\* the providers registered by the constructor, in insertion order
providers == <<"openai", "openai-fast", "gemini", "claude">>

Registered == {providers[i] : i \in 1..Len(providers)}

\* the provider ids requests are made with
ProviderIds == Registered \cup {"mistral"}

\* request.imageBase64: "-" stands for a missing field
Images == {"-", "", "/9j/base64"}

\* the format patterns of validateApiKey (middleware), by provider:
\*   openai /^sk-[a-zA-Z0-9\-_\.]{10,}$/   gemini /^[A-Za-z0-9_-]{10,}$/
\*   claude /^sk-ant-[A-Za-z0-9_-]{10,}$/
HasPattern(provider) == provider \in {"openai", "gemini", "claude"}

PatternMatches(provider, k) ==
  CASE provider = "openai" ->
         /\ k.prefix \in {"sk-", "sk-ant-"}
         /\ k.class \in {"word", "dotted"}
         /\ (PrefixLen(k) - 3) + k.len >= MinKeyBody
    [] provider = "gemini" ->
         /\ k.class = "word"
         /\ PrefixLen(k) + k.len >= MinKeyBody
    [] provider = "claude" ->
         /\ k.prefix = "sk-ant-"
         /\ k.class = "word"
         /\ k.len >= MinKeyBody
    [] OTHER -> FALSE

\* validateApiKey(provider, apiKey) of the validation middleware
validateFormat(provider, k) ==
  IF KeyIsBlank(k) THEN FALSE
  ELSE IF ~HasPattern(provider) THEN FALSE
  ELSE PatternMatches(provider, k)

(***************************************************************************)
(* Vendor responses, as far as the adapters look at them.                  *)
(***************************************************************************)
\* most safety ratings of probability HIGH or MEDIUM on a Gemini candidate
MaxFlags == 8

\* the generated text: its length, and whether it is white space only
VendorTexts ==
  { [len |-> 0, blank |-> FALSE], [len |-> 3, blank |-> TRUE],
    [len |-> 60, blank |-> FALSE], [len |-> 150, blank |-> FALSE],
    [len |-> 600, blank |-> FALSE] }

\* text.trim().length
TrimLen(t) == IF t.blank THEN 0 ELSE t.len

\* a 2xx response: "full" has the text where the adapter looks for it,
\* "hollow" has no choices / candidates / content
OkResponses ==
  [kind : {"ok"}, shape : {"full"}, text : VendorTexts,
   finish : {"complete", "max_tokens", "other"}, flags : {0, 1, MaxFlags},
   usage : {"none", "healthy", "tiny"}]
  \cup
  { [kind |-> "ok", shape |-> "hollow", text |-> [len |-> 0, blank |-> FALSE],
     finish |-> "other", flags |-> 0, usage |-> "none"] }

\* the HTTP statuses of the vendors' error responses
HttpStatuses == {400, 401, 403, 429, 500}

\* the status a vendor sends with an error object of each kind ("other": any)
StatusOf(what) ==
  CASE what = "invalid"    -> {400}
    [] what = "auth"       -> {401}
    [] what = "permission" -> {403}
    [] what \in {"rate", "quota"} -> {429}
    [] OTHER               -> HttpStatuses

\* error.message of the axios error for a response with a non-2xx status
StatusMessage(status) == "Request failed with status code " \o ToString(status)

\* a rejected request: no response at all ("network", status 0), a response
\* without a body ("nobody"), a body without an error object ("plain"), or an
\* error object of one of the vendor's kinds with or without a message
ErrResponses ==
  [kind : {"err"}, body : {"network"}, status : {0}, what : {"other"},
   message : {""}, raw : RawErrors]
  \cup
  { [kind |-> "err", body |-> b, status |-> s, what |-> "other", message |-> "",
     raw |-> StatusMessage(s)] : b \in {"nobody", "plain"}, s \in HttpStatuses }
  \cup
  UNION { { [kind |-> "err", body |-> "error", status |-> s, what |-> w,
              message |-> m, raw |-> StatusMessage(s)] :
               s \in StatusOf(w), m \in {"", "Rate limit reached for requests"} } :
          w \in {"auth", "quota", "rate", "invalid", "permission", "other"} }

VendorResponses == OkResponses \cup ErrResponses

ProviderName(provider) ==
  CASE provider = "gemini" -> "Gemini" [] provider = "claude" -> "Claude" [] OTHER -> "OpenAI"

\* calculateConfidence of each adapter, in hundredths
Min(a, b) == IF a < b THEN a ELSE b
Max(a, b) == IF a > b THEN a ELSE b

\* A faulty variant: the sums without Math.min / Math.max
calculateConfidenceUnclamped(provider, v) ==
  CASE provider = "openai" ->
         70 + (IF v.text.len >= 100 /\ v.text.len <= 300 THEN 20
                   ELSE IF v.text.len >= 50 /\ v.text.len < 500 THEN 10 ELSE 0)
                + (IF v.finish = "complete" THEN 10 ELSE 0)
    [] provider = "openai-fast" ->
         IF v.finish = "complete" THEN 80 ELSE 60
    [] provider = "gemini" ->
         75 - 10 * v.flags
                 + (IF v.finish = "complete" THEN 15
                    ELSE IF v.finish = "max_tokens" THEN -5 ELSE 0)
                 + (IF v.text.len >= 100 /\ v.text.len <= 300 THEN 10 ELSE 0)
    [] OTHER ->
         80 + (IF v.finish = "complete" THEN 10
                       ELSE IF v.finish = "max_tokens" THEN -10 ELSE 0)
                 + (IF v.text.len >= 100 /\ v.text.len <= 300 THEN 10
                    ELSE IF v.text.len < 50 THEN -20 ELSE 0)
                 + (IF v.usage = "healthy" THEN 5 ELSE 0)

calculateConfidence(provider, v) ==
  CASE provider = "openai" ->
         Min(70 + (IF v.text.len >= 100 /\ v.text.len <= 300 THEN 20
                   ELSE IF v.text.len >= 50 /\ v.text.len < 500 THEN 10 ELSE 0)
                + (IF v.finish = "complete" THEN 10 ELSE 0), 100)
    [] provider = "openai-fast" ->
         IF v.finish = "complete" THEN 80 ELSE 60
    [] provider = "gemini" ->
         Min(Max(75 - 10 * v.flags
                 + (IF v.finish = "complete" THEN 15
                    ELSE IF v.finish = "max_tokens" THEN -5 ELSE 0)
                 + (IF v.text.len >= 100 /\ v.text.len <= 300 THEN 10 ELSE 0), 0), 100)
    [] OTHER ->
         Min(Max(80 + (IF v.finish = "complete" THEN 10
                       ELSE IF v.finish = "max_tokens" THEN -10 ELSE 0)
                 + (IF v.text.len >= 100 /\ v.text.len <= 300 THEN 10
                    ELSE IF v.text.len < 50 THEN -20 ELSE 0)
                 + (IF v.usage = "healthy" THEN 5 ELSE 0), 0), 100)

Returned(promptLen, confidence) ==
  [threw |-> FALSE, promptLen |-> promptLen, confidence |-> confidence, error |-> <<>>]

Thrown(message) ==
  [threw |-> TRUE, promptLen |-> 0, confidence |-> 0, error |-> message]

\* the message of the error an adapter's catch block throws for a rejected request
AdapterError(provider, v) ==
  IF v.body = "network"
  THEN <<ProviderName(provider), " request failed: ", v.raw>>
  ELSE IF v.body = "nobody"
  THEN <<"Cannot read properties of undefined (reading 'error')">>
  ELSE IF v.body = "plain"
  THEN <<ProviderName(provider), " request failed: ", v.raw>>
  ELSE CASE provider \in {"openai", "openai-fast"} ->
              IF v.what = "auth" THEN <<"Invalid OpenAI API key provided">>
              ELSE IF v.what = "quota" THEN <<"OpenAI API quota exceeded">>
              ELSE <<"OpenAI API error: ", v.message>>
         [] provider = "gemini" ->
              IF v.what = "invalid"
              THEN <<"Invalid request to Gemini API. Please check your API key and request format.">>
              ELSE IF v.what \in {"auth", "permission"}
              THEN <<"Invalid or unauthorized Gemini API key">>
              ELSE IF v.what = "rate" THEN <<"Gemini API rate limit exceeded">>
              ELSE <<"Gemini API error: ", IF v.message # "" THEN v.message ELSE "Unknown error">>
         [] OTHER ->
              IF v.what = "auth" THEN <<"Invalid Claude API key provided">>
              ELSE IF v.what = "permission"
              THEN <<"Claude API permission denied - check your API key permissions">>
              ELSE IF v.what = "rate" THEN <<"Claude API rate limit exceeded">>
              ELSE IF v.what = "invalid" THEN <<"Claude API invalid request: ", v.message>>
              ELSE <<"Claude API error: ", IF v.message # "" THEN v.message ELSE "Unknown error">>

\* the message an adapter throws for a 2xx response it cannot use, by provider:
\* <<no choices / candidates / content, no text>>
UnusableMessage(provider, hollow) ==
  CASE provider \in {"openai", "openai-fast"} ->
         IF hollow THEN "No response from OpenAI API" ELSE "Empty response from OpenAI API"
    [] provider = "gemini" ->
         IF hollow THEN "No response from Gemini API" ELSE "No text content in Gemini response"
    [] OTHER ->
         IF hollow THEN "No response from Claude API" ELSE "Invalid response format from Claude API"

\* analyzeAndGeneratePrompt of the provider's adapter on the vendor's response.
\* An error thrown in the try block is caught by the adapter's own catch and
\* rethrown as "<vendor> request failed: <message>".
analyzeAndGeneratePrompt(provider, v) ==
  IF v.kind = "err" THEN Thrown(AdapterError(provider, v))
  ELSE IF v.shape = "hollow"
  THEN Thrown(<<ProviderName(provider), " request failed: ", UnusableMessage(provider, TRUE)>>)
  ELSE IF v.text.len = 0
  THEN Thrown(<<ProviderName(provider), " request failed: ", UnusableMessage(provider, FALSE)>>)
  ELSE Returned(TrimLen(v.text), calculateConfidence(provider, v))

\* validateApiKey of the provider's adapter on the vendor's response to its
\* minimal request: [threw, isValid, error, details]
adapterValidateApiKey(provider, v) ==
  IF v.kind = "ok"
  THEN [threw |-> FALSE, isValid |-> TRUE, error |-> <<>>, details |-> "authenticated"]
  ELSE IF v.body = "nobody" /\ provider # "openai-fast"
  THEN [threw |-> TRUE, isValid |-> FALSE,
        error |-> <<"Cannot read properties of undefined (reading 'error')">>,
        details |-> "none"]
  ELSE IF v.body \in {"network", "nobody", "plain"}
  THEN [threw |-> FALSE, isValid |-> FALSE,
        error |-> CASE provider = "openai" -> <<"Network error or timeout while validating API key">>
                    [] provider = "openai-fast" -> <<"Network error while validating API key">>
                    [] OTHER -> <<"Network error or invalid API key: ", v.raw>>,
        details |-> IF provider = "openai-fast" THEN "none" ELSE "network_error"]
  ELSE [threw |-> FALSE, isValid |-> FALSE,
        error |->
          CASE provider \in {"openai", "openai-fast"} ->
                 IF v.what = "auth" THEN <<"Invalid OpenAI API key">>
                 ELSE IF v.what = "quota" THEN <<"OpenAI API quota exceeded">>
                 ELSE IF v.what = "permission" /\ provider = "openai"
                 THEN <<"Model access denied">>
                 ELSE <<IF v.message # "" THEN v.message ELSE "OpenAI API error">>
            [] provider = "gemini" ->
                 IF v.what = "invalid" THEN <<"Invalid request format or API key">>
                 ELSE IF v.what \in {"auth", "permission"}
                 THEN <<"Invalid or unauthorized Gemini API key">>
                 ELSE IF v.what = "rate" THEN <<"Gemini API rate limit exceeded">>
                 ELSE <<"Gemini API error: ", IF v.message # "" THEN v.message ELSE "Unknown error">>
            [] OTHER ->
                 IF v.what = "auth" THEN <<"Invalid Claude API key provided">>
                 ELSE IF v.what = "permission"
                 THEN <<"Claude API permission denied - check your API key permissions">>
                 ELSE IF v.what = "rate" THEN <<"Claude API rate limit exceeded">>
                 ELSE IF v.what = "invalid" THEN <<"Claude API invalid request: ", v.message>>
                 ELSE <<"Claude API error: ", IF v.message # "" THEN v.message ELSE "Unknown error">>,
        details |-> IF provider = "openai-fast" THEN "none" ELSE v.what]

(***************************************************************************)
(* AIProviderManager.generatePrompt.                                       *)
(***************************************************************************)
\* "Unsupported AI provider: <id>. Supported providers: <the registered ids>"
UnsupportedProvider(provider) ==
  <<"Unsupported AI provider: ", provider, ". Supported providers: ">> \o providers

\* generatePrompt's return in the try block
ManagerSuccess(r) ==
  [kind |-> "resolved", success |-> TRUE, promptLen |-> r.promptLen,
   confidence |-> r.confidence, error |-> <<>>]

\* generatePrompt's catch block
ManagerFailure(message) ==
  [kind |-> "resolved", success |-> FALSE, promptLen |-> 0, confidence |-> 0,
   error |-> message]

\* A faulty variant: the key check without trim(): only the empty key is rejected
GenerateDecisionNoTrim(provider, k, image) ==
  IF provider \notin Registered THEN "unsupported"
  ELSE IF PrefixLen(k) + k.len = 0 THEN "no_key"
  ELSE IF image \in {"-", ""} THEN "no_image"
  ELSE "dispatch"

\* A faulty variant: the text-only adapter is dispatched to without an image
GenerateDecisionTextOnly(provider, k, image) ==
  IF provider \notin Registered THEN "unsupported"
  ELSE IF KeyIsBlank(k) THEN "no_key"
  ELSE IF image \in {"-", ""} /\ provider # "openai-fast" THEN "no_image"
  ELSE "dispatch"

\* the checks generatePrompt makes before it calls the adapter
GenerateDecision(provider, k, image) ==
  IF provider \notin Registered THEN "unsupported"
  ELSE IF KeyIsBlank(k) THEN "no_key"
  ELSE IF image \in {"-", ""} THEN "no_image"
  ELSE "dispatch"

GenerateEntry(c, provider, k, image) ==
  /\ req' = [req EXCEPT ![c] = [op |-> "generate", provider |-> provider,
                                apiKey |-> k, image |-> image]]
  /\ CASE GenerateDecision(provider, k, image) = "unsupported" ->
            SetCall(c, "done", NoLoc, ManagerFailure(UnsupportedProvider(provider)))
       [] GenerateDecision(provider, k, image) = "no_key" ->
            SetCall(c, "done", NoLoc, ManagerFailure(<<"API key is required">>))
       [] GenerateDecision(provider, k, image) = "no_image" ->
            SetCall(c, "done", NoLoc,
                    ManagerFailure(<<"Image data is required for AI analysis">>))
       [] OTHER ->
            SetCall(c, "generate", [NoLoc EXCEPT !.dispatched = TRUE], NoResult)
  /\ UNCHANGED <<browser, browsers, idUrl, idResult>>

StartGenerate(c) ==
  /\ \A d \in Calls : pc[d] = "idle"
  /\ \E provider \in ProviderIds, k \in ApiKeys, image \in Images :
       GenerateEntry(c, provider, k, image)
  /\ UNCHANGED others

\* the adapter's analyzeAndGeneratePrompt settles
GenerateDone(c) ==
  /\ pc[c] = "generate"
  /\ \E v \in VendorResponses :
       LET r == analyzeAndGeneratePrompt(req[c].provider, v)
           l == [loc[c] EXCEPT !.vendor = v]
       IN IF r.threw
          THEN SetCall(c, "done", l, ManagerFailure(r.error))
          ELSE SetCall(c, "done", l, ManagerSuccess(r))
  /\ UNCHANGED <<req, browser, browsers, idUrl, idResult, others>>

(***************************************************************************)
(* AIProviderManager.validateApiKey.                                       *)
(***************************************************************************)
ValidationResult(success, isValid, error, details) ==
  [kind |-> "resolved", success |-> success, isValid |-> isValid, error |-> error,
   details |-> details]

\* A faulty variant: no format check before the adapter is called
ValidateDecisionNoFormat(provider, k) ==
  IF provider \notin Registered THEN "unsupported" ELSE "dispatch"

\* the checks validateApiKey makes before it calls the adapter
ValidateDecision(provider, k) ==
  IF provider \notin Registered THEN "unsupported"
  ELSE IF ~validateFormat(provider, k) THEN "format_invalid"
  ELSE "dispatch"

ValidateEntry(c, provider, k) ==
  /\ req' = [req EXCEPT ![c] = [op |-> "validate", provider |-> provider, apiKey |-> k]]
  /\ CASE ValidateDecision(provider, k) = "unsupported" ->
            SetCall(c, "done", NoLoc,
                    ValidationResult(FALSE, FALSE, UnsupportedProvider(provider), "none"))
       [] ValidateDecision(provider, k) = "format_invalid" ->
            SetCall(c, "done", NoLoc,
                    ValidationResult(TRUE, FALSE, <<"Invalid ", provider, " API key format">>,
                                     "format_invalid"))
       [] OTHER ->
            SetCall(c, "validate", [NoLoc EXCEPT !.dispatched = TRUE], NoResult)
  /\ UNCHANGED <<browser, browsers, idUrl, idResult, others>>

StartValidate(c) ==
  /\ \A d \in Calls : pc[d] = "idle"
  /\ \E provider \in ProviderIds, k \in ApiKeys : ValidateEntry(c, provider, k)

\* the adapter's validateApiKey settles; the manager relays it, or catches
ValidateDone(c) ==
  /\ pc[c] = "validate"
  /\ \E v \in VendorResponses :
       LET r == adapterValidateApiKey(req[c].provider, v)
       IN IF r.threw
          THEN SetCall(c, "done", loc[c], ValidationResult(FALSE, FALSE, r.error, "none"))
          ELSE SetCall(c, "done", loc[c],
                       ValidationResult(TRUE, r.isValid, r.error, r.details))
  /\ UNCHANGED <<req, browser, browsers, idUrl, idResult, others>>

(***************************************************************************)
(* The frontend API client (axios instance with baseURL .../api).  A        *)
(* request is the endpoint it is posted to and its JSON body.               *)
(***************************************************************************)
PromptStyles == {"detailed", "artistic"}

\* formData.targetPlatform: "-" stands for a missing field
TargetPlatforms == {"-", "midjourney"}

\* the values of the main form
FormDatas ==
  [url : ScrapeURLs, provider : ProviderIds, apiKey : ApiKeys,
   promptStyle : PromptStyles, targetPlatform : TargetPlatforms]

NoRequest == [endpoint |-> "none", body |-> <<>>]

\* APIClient.analyzeUrl
analyzeUrl(url) == [endpoint |-> "/analyze-url", body |-> [url |-> url]]

\* APIClient.analyzeAndGenerate
analyzeAndGenerate(formData) ==
  [endpoint |-> "/analyze-and-generate",
   body |-> [url |-> formData.url, provider |-> formData.provider,
             apiKey |-> formData.apiKey, promptStyle |-> formData.promptStyle,
             targetPlatform |-> formData.targetPlatform]]

\* APIClient.generatePrompt: the data object is posted as it is
clientGeneratePrompt(data) == [endpoint |-> "/generate-prompt", body |-> data]

\* APIClient.validateApiKey
clientValidateApiKey(provider, apiKey) ==
  [endpoint |-> "/validate-api-key", body |-> [provider |-> provider, apiKey |-> apiKey]]

SendAnalyzeUrl ==
  /\ client = NoRequest
  /\ \E url \in ScrapeURLs : client' = analyzeUrl(url)
  /\ UNCHANGED <<pc, req, loc, result, browser, browsers, idUrl, idResult, extract, endpoint, rest>>

SendAnalyzeAndGenerate ==
  /\ client = NoRequest
  /\ \E formData \in FormDatas : client' = analyzeAndGenerate(formData)
  /\ UNCHANGED <<pc, req, loc, result, browser, browsers, idUrl, idResult, extract, endpoint, rest>>

SendGeneratePrompt ==
  /\ client = NoRequest
  /\ \E formData \in FormDatas :
       client' = clientGeneratePrompt(
                   [provider |-> formData.provider, apiKey |-> formData.apiKey,
                    imageData |-> MockMetadata, promptStyle |-> formData.promptStyle,
                    targetPlatform |-> formData.targetPlatform])
  /\ UNCHANGED <<pc, req, loc, result, browser, browsers, idUrl, idResult, extract, endpoint, rest>>

SendValidateApiKey ==
  /\ client = NoRequest
  /\ \E provider \in ProviderIds, apiKey \in ApiKeys :
       client' = clientValidateApiKey(provider, apiKey)
  /\ UNCHANGED <<pc, req, loc, result, browser, browsers, idUrl, idResult, extract, endpoint, rest>>

\* the response interceptor ran: the request is over
ResponseReceived ==
  /\ client # NoRequest
  /\ client' = NoRequest
  /\ UNCHANGED <<pc, req, loc, result, browser, browsers, idUrl, idResult, extract, endpoint, rest>>

(***************************************************************************)
(* The selector helpers of PlatformScraper.  A string is a sequence of     *)
(* characters: "a" and "b" are word characters, " " is white space, "*" is *)
(* any other character (punctuation, or a letter outside [A-Za-z0-9_]).    *)
(* A document is given by what each selector of the list matches: a        *)
(* sequence of elements, each with a content attribute (<<>> if it has     *)
(* none) and a text.                                                       *)
(***************************************************************************)
\* longest selector list
MaxSelectors == 2
\* most elements one selector matches
MaxElems == 2
\* how often the tags of one document are extracted
MaxRuns == 2

\* the characters of the modelled strings
Chars == {"a", "b", " ", "*"}

\* \s and \W
WhiteSpace == {" "}
NonWord == {" ", "*"}

\* the characters of t dropped from its start / end while they are in drop

RECURSIVE dropLeading(_, _)
dropLeading(t, drop) ==
  IF t # <<>> /\ t[1] \in drop THEN dropLeading(Tail(t), drop) ELSE t

RECURSIVE dropTrailing(_, _)
dropTrailing(t, drop) ==
  IF t # <<>> /\ t[Len(t)] \in drop THEN dropTrailing(SubSeq(t, 1, Len(t) - 1), drop) ELSE t

\* String.prototype.trim
trim(t) == dropTrailing(dropLeading(t, WhiteSpace), WhiteSpace)

\* text.replace(/\s+/g, ' '): every run of white space becomes one space
RECURSIVE collapseSpaces(_)
collapseSpaces(t) ==
  IF Len(t) < 2 THEN t
  ELSE IF t[1] = " " /\ t[2] = " " THEN collapseSpaces(Tail(t))
  ELSE <<t[1]>> \o collapseSpaces(Tail(t))

\* cleanText: collapse white space, strip leading and trailing non-word
\* characters (/^\W+|\W+$/g), trim
cleanText(t) == trim(dropTrailing(dropLeading(collapseSpaces(t), NonWord), NonWord))

ElementTexts == { <<>>, <<"*">>, <<"a">>, <<"a", "*">>, <<" ", "b", " ">> }

Elements == [content : {<<>>, <<"b">>}, text : ElementTexts]

\* what the selectors of a list match, selector by selector
Documents ==
  UNION { [1..n -> SeqsUpTo(Elements, MaxElems)] : n \in 1..MaxSelectors }

\* $(selector).text(): the texts of all matched elements, concatenated
RECURSIVE allText(_)
allText(els) == IF els = <<>> THEN <<>> ELSE els[1].text \o allText(Tail(els))

\* element.attr('content') || element.text().trim() for the elements a
\* selector matches (attr reads the first element)
selectorContent(els) ==
  IF els = <<>> THEN <<>>
  ELSE IF els[1].content # <<>> THEN els[1].content
  ELSE trim(allText(els))

\* extractWithSelectors: the content of the first selector that has any
extractWithSelectors(doc) ==
  LET hits == {i \in 1..Len(doc) : selectorContent(doc[i]) # <<>>}
  IN IF hits = {} THEN <<>>
     ELSE selectorContent(doc[CHOOSE i \in hits : \A j \in hits : i <= j])

\* results.push(text) unless text is empty or already included
pushNew(results, text) ==
  IF text # <<>> /\ \A k \in 1..Len(results) : results[k] # text
  THEN Append(results, text) ELSE results

\* $(selector).each(...) over the matched elements, in document order
RECURSIVE eachElement(_, _)
eachElement(results, els) ==
  IF els = <<>> THEN results
  ELSE eachElement(pushNew(results, trim(els[1].text)), Tail(els))

\* extractArrayWithSelectors: the loop over the selector list
RECURSIVE eachSelector(_, _)
eachSelector(results, doc) ==
  IF doc = <<>> THEN results
  ELSE eachSelector(eachElement(results, doc[1]), Tail(doc))

extractArrayWithSelectors(doc) == eachSelector(<<>>, doc)

\* .map(tag => this.cleanText(tag)).filter(tag => tag.length > 0)
RECURSIVE cleanTags(_)
cleanTags(ts) ==
  IF ts = <<>> THEN <<>>
  ELSE IF cleanText(ts[1]) # <<>> THEN <<cleanText(ts[1])>> \o cleanTags(Tail(ts))
  ELSE cleanTags(Tail(ts))

\* the fields extractGenericMetadata computes from the document
GenericTitle(doc) == cleanText(extractWithSelectors(doc))
GenericImageUrl(doc) == extractWithSelectors(doc)
GenericTags(doc) == cleanTags(extractArrayWithSelectors(doc))

NoExtract ==
  [doc |-> <<>>, done |-> {}, title |-> <<>>, imageUrl |-> <<>>, runs |-> <<>>]

ExtractTitle ==
  /\ "title" \notin extract.done
  /\ extract' = [extract EXCEPT !.done = @ \cup {"title"}, !.title = GenericTitle(extract.doc)]
  /\ UNCHANGED <<pc, req, loc, result, browser, browsers, idUrl, idResult, client, endpoint, rest>>

ExtractImageUrl ==
  /\ "image" \notin extract.done
  /\ extract' = [extract EXCEPT !.done = @ \cup {"image"},
                                !.imageUrl = GenericImageUrl(extract.doc)]
  /\ UNCHANGED <<pc, req, loc, result, browser, browsers, idUrl, idResult, client, endpoint, rest>>

\* one more extraction of the tags of the same document
ExtractTags ==
  /\ Len(extract.runs) < MaxRuns
  /\ extract' = [extract EXCEPT !.runs = Append(@, GenericTags(extract.doc))]
  /\ UNCHANGED <<pc, req, loc, result, browser, browsers, idUrl, idResult, client, endpoint, rest>>

(***************************************************************************)
(* POST /analyze-and-generate.  The handler runs scrapeStockURL in call    *)
(* slot 1 and generatePrompt in call slot 2, each raced against a timer.   *)
(* A promise that has settled is continued (microtask) before any timer    *)
(* (macrotask) fires.                                                      *)
(***************************************************************************)
\* the request bodies that pass validateAnalyzeAndGenerate: an http(s) URL, a
\* registered provider, a key of at least ten characters
EndpointBodies ==
  [url : {u \in ScrapeURLs : isValidURL(u)}, provider : Registered,
   apiKey : {[prefix |-> "sk-", len |-> MinKeyBody, class |-> "word"],
             [prefix |-> "", len |-> MinKeyBody, class |-> "blank"]}]

NoEndpoint ==
  [pc |-> "idle", body |-> <<>>, scrapeTimer |-> "off", genTimer |-> "off",
   genStarted |-> FALSE, responses |-> <<>>]

ScrapeTimeout == "URL analysis timed out after 45 seconds"
GenerateTimeout == "AI prompt generation timed out after 30 seconds"

\* res.status(status).json({success, error}); the handler returns
Respond(ep, status, success, error) ==
  [ep EXCEPT !.pc = "finished",
             !.responses = Append(@, [status |-> status, success |-> success, error |-> error])]

\* A faulty variant: a timer's rejection is acted on whenever it fires
RaceAlwaysOpen(ep, stage) == TRUE

\* Promise.race of the stage has not settled yet: the handler is awaiting it
RaceOpen(ep, stage) == ep.pc = stage

\* a call's promise has settled and the handler awaiting it has not run yet
MicrotaskPending ==
  \/ endpoint.pc = "scraping" /\ pc[1] = "done"
  \/ endpoint.pc = "generating" /\ pc[2] = "done"

\* request.imageBase64 as the handler passes it: analysisResult.data.imageBase64
ImageOf(meta) == IF meta.imageBase64 = "" THEN "-" ELSE meta.imageBase64

\* the handler up to its first await: scrapeStockURL is called, the 45 s timer set
EpReceive ==
  /\ endpoint.pc = "idle"
  /\ \A d \in Calls : pc[d] = "idle"
  /\ \E body \in EndpointBodies :
       /\ LaunchAllowed(body.url)
       /\ ScrapeEntry(1, body.url)
       /\ endpoint' = [endpoint EXCEPT !.pc = "scraping", !.body = body,
                                       !.scrapeTimer = "armed"]
  /\ UNCHANGED <<client, extract, rest>>

\* the scrape won its race: respond 400, or call generatePrompt and set the
\* 30 s timer
EpAfterScrape ==
  /\ RaceOpen(endpoint, "scraping")
  /\ pc[1] = "done"
  /\ IF ~result[1].success \/ ~result[1].hasData
     THEN /\ endpoint' = Respond(endpoint, 400, FALSE,
                                 IF NonEmptyText(result[1].error) THEN result[1].error
                                 ELSE <<"Failed to analyze URL">>)
          /\ UNCHANGED <<pc, req, loc, result, browser, browsers, idUrl, idResult>>
     ELSE /\ GenerateEntry(2, endpoint.body.provider, endpoint.body.apiKey,
                           ImageOf(result[1].data))
          /\ endpoint' = [endpoint EXCEPT !.pc = "generating", !.genTimer = "armed",
                                          !.genStarted = TRUE]
  /\ UNCHANGED <<client, extract, rest>>

\* the 45 s timer fires: the race rejects if it is still open
EpScrapeTimer ==
  /\ endpoint.scrapeTimer = "armed"
  /\ ~MicrotaskPending
  /\ endpoint' =
       IF RaceOpen(endpoint, "scraping")
       THEN [Respond(endpoint, 500, FALSE, <<ScrapeTimeout>>) EXCEPT !.scrapeTimer = "fired"]
       ELSE [endpoint EXCEPT !.scrapeTimer = "fired"]
  /\ UNCHANGED <<pc, req, loc, result, browser, browsers, idUrl, idResult, client, extract, rest>>

\* generatePrompt won its race: respond 400 or 200
EpAfterGenerate ==
  /\ RaceOpen(endpoint, "generating")
  /\ pc[2] = "done"
  /\ endpoint' =
       IF ~result[2].success
       THEN Respond(endpoint, 400, FALSE,
                    IF NonEmptyText(result[2].error) THEN result[2].error
                    ELSE <<"Failed to generate prompt">>)
       ELSE Respond(endpoint, 200, TRUE, <<>>)
  /\ UNCHANGED <<pc, req, loc, result, browser, browsers, idUrl, idResult, client, extract, rest>>

\* the 30 s timer fires: the race rejects if it is still open
EpGenerateTimer ==
  /\ endpoint.genTimer = "armed"
  /\ ~MicrotaskPending
  /\ endpoint' =
       IF RaceOpen(endpoint, "generating")
       THEN [Respond(endpoint, 500, FALSE, <<GenerateTimeout>>) EXCEPT !.genTimer = "fired"]
       ELSE [endpoint EXCEPT !.genTimer = "fired"]
  /\ UNCHANGED <<pc, req, loc, result, browser, browsers, idUrl, idResult, client, extract, rest>>

(***************************************************************************)
(* FreepikScraper: the selector lists of platformInfo and the lists the    *)
(* script run by page.evaluate carries, over one DOM.  A DOM gives, for    *)
(* each selector, the elements it matches (here at most one); an element   *)
(* has a content attribute, a text and a src attribute.                    *)
(***************************************************************************)
\* platformInfo.selectors of FreepikScraper
platformInfoSelectors ==
  [title |-> <<"h1", "[data-testid=resource-title]", "meta[property=og:title]",
               ".resource-title", "title">>,
   image |-> <<".preview-image img", "[data-testid=preview-image]",
               "meta[property=og:image]", ".resource-preview img", ".main-preview img">>]

\* the lists inside the page.evaluate script
titleSelectors ==
  <<"h1", "[data-testid=resource-title]", ".resource-title", "meta[property=og:title]">>

imgSelectors ==
  <<".preview-image img", "[data-testid=preview-image]", ".resource-preview img",
    ".main-preview img", "meta[property=og:image]">>

SelectorsOf(field) == {platformInfoSelectors[field][i] : i \in 1..Len(platformInfoSelectors[field])}

HttpImage == <<"https://cdn/a.jpg">>
HttpImage2 == <<"https://cdn/b.jpg">>
RelativeImage == <<"/media/a.jpg">>

\* the elements a title selector can match, and an image selector
TitleElements ==
  { [content |-> <<>>, text |-> <<"a">>, src |-> <<>>],
    [content |-> <<"b">>, text |-> <<>>, src |-> <<>>],
    [content |-> <<"b">>, text |-> <<"a">>, src |-> <<>>],
    [content |-> <<>>, text |-> <<" ">>, src |-> <<>>] }

ImageElements ==
  { [content |-> <<>>, text |-> <<>>, src |-> HttpImage],
    [content |-> <<>>, text |-> <<>>, src |-> RelativeImage],
    [content |-> HttpImage2, text |-> <<>>, src |-> <<>>] }

DOMs(field) ==
  [SelectorsOf(field) ->
     {<<>>} \cup {<<e>> : e \in IF field = "title" THEN TitleElements ELSE ImageElements}]

\* $(selector) for each selector of a list, in the list's order
docOf(dom, selectors) == [i \in 1..Len(selectors) |-> dom[selectors[i]]]

\* imageUrl.startsWith('http')
startsWithHttp(t) == t \in {HttpImage, HttpImage2}

\* the title loop of the script: element.textContent?.trim() ||
\* element.getAttribute('content') || '', first non-empty wins
RECURSIVE evaluateTitle(_, _)
evaluateTitle(dom, selectors) ==
  IF selectors = <<>> THEN <<>>
  ELSE LET els == dom[Head(selectors)]
           title == IF els = <<>> THEN <<>>
                    ELSE IF trim(els[1].text) # <<>> THEN trim(els[1].text)
                    ELSE els[1].content
       IN IF title # <<>> THEN title ELSE evaluateTitle(dom, Tail(selectors))

\* the image loop of the script: element.getAttribute('src') ||
\* element.getAttribute('content') || ''; the loop breaks only on a value
\* that starts with 'http', so the value of the last matched element stays
RECURSIVE evaluateImageUrl(_, _, _)
evaluateImageUrl(dom, selectors, imageUrl) ==
  IF selectors = <<>> THEN imageUrl
  ELSE LET els == dom[Head(selectors)]
           found == IF els[1].src # <<>> THEN els[1].src ELSE els[1].content
       IN IF els = <<>> THEN evaluateImageUrl(dom, Tail(selectors), imageUrl)
          ELSE IF startsWithHttp(found) THEN found
          ELSE evaluateImageUrl(dom, Tail(selectors), found)

\* data.title and data.imageUrl as the script returns them
EvaluatedTitle(dom) == evaluateTitle(dom, titleSelectors)
EvaluatedImageUrl(dom) == evaluateImageUrl(dom, imgSelectors, <<>>)

\* what extractGenericMetadata computes with platformInfo.selectors
PlatformInfoTitle(dom) == GenericTitle(docOf(dom, platformInfoSelectors.title))
PlatformInfoImageUrl(dom) == GenericImageUrl(docOf(dom, platformInfoSelectors.image))

NotExtracted == <<"not-extracted">>

NoInPage ==
  [field |-> "none", dom |-> <<>>, evaluated |-> NotExtracted, generic |-> NotExtracted]

\* page.evaluate
FreepikEvaluate ==
  /\ inpage.field # "none"
  /\ inpage.evaluated = NotExtracted
  /\ inpage' = [inpage EXCEPT !.evaluated =
                   IF inpage.field = "title" THEN EvaluatedTitle(inpage.dom)
                   ELSE EvaluatedImageUrl(inpage.dom)]
  /\ UNCHANGED exceptInPage

\* the generic extractor over the same DOM
FreepikGeneric ==
  /\ inpage.field # "none"
  /\ inpage.generic = NotExtracted
  /\ inpage' = [inpage EXCEPT !.generic =
                   IF inpage.field = "title" THEN PlatformInfoTitle(inpage.dom)
                   ELSE PlatformInfoImageUrl(inpage.dom)]
  /\ UNCHANGED exceptInPage

(***************************************************************************)
(* A Freepik scrape called from POST /analyze-and-generate, with time.     *)
(* Times are in seconds.  An await that the code gives a timeout settles   *)
(* before the timeout or is rejected at it; an await without one (newPage  *)
(* and the page setup, page.close, closeBrowser) takes any time.           *)
(***************************************************************************)
Tick == 5
MaxTime == 60

\* puppeteer.launch({timeout: 30000})
LaunchTimeout == 30
\* page.goto(url, {timeout: 15000}), page.setDefaultNavigationTimeout(15000)
NavigationTimeout == 15
\* setTimeout(() => reject(new Error('URL analysis timed out ...')), 45000)
ScrapeDeadline == 45

NavigationTimedOut ==
  <<ScrapeErrorPrefix("freepik"), "Navigation timeout of 15000 ms exceeded">>
LaunchTimedOut ==
  <<ScrapeErrorPrefix("freepik"), "Browser initialization failed: ",
    "Timed out after 30000 ms while trying to connect to the browser!">>

\* a page whose navigation completed
NavPage ==
  [title |-> "A photo", image |-> "https://cdn/260x280/a.jpg", alt |-> "", preview |-> ""]

NoNav ==
  [pc |-> "idle", now |-> 0, due |-> 0, deadline |-> 0, timer |-> "off",
   gotoTimedOut |-> FALSE, envelope |-> NoResult, responses |-> <<>>]

\* the handler calls scrapeStockURL, which runs up to puppeteer.launch, and
\* sets the 45 s timer
NavReceive ==
  /\ nav.pc = "idle"
  /\ nav' = [nav EXCEPT !.pc = "launch", !.due = nav.now + LaunchTimeout,
                         !.deadline = nav.now + ScrapeDeadline, !.timer = "armed"]
  /\ UNCHANGED exceptNav

\* puppeteer.launch resolves within its timeout
NavLaunchDone ==
  /\ nav.pc = "launch" /\ nav.now < nav.due
  /\ nav' = [nav EXCEPT !.pc = "setup"]
  /\ UNCHANGED exceptNav

\* puppeteer.launch is rejected at its timeout: initBrowser throws, this.browser
\* is undefined so closeBrowser has nothing to close, and scrapeStockURL
\* returns the failure envelope
NavLaunchTimeout ==
  /\ nav.pc = "launch" /\ nav.now >= nav.due
  /\ nav' = [nav EXCEPT !.pc = "returned", !.envelope = EngineFailure(LaunchTimedOut)]
  /\ UNCHANGED exceptNav

\* newPage and the page setup are done: page.goto is called
NavSetupDone ==
  /\ nav.pc = "setup"
  /\ nav' = [nav EXCEPT !.pc = "goto", !.due = nav.now + NavigationTimeout]
  /\ UNCHANGED exceptNav

\* the navigation completes within its timeout; the rest of the extraction
\* and the closing of the page and the browser follow
NavGotoDone ==
  /\ nav.pc = "goto" /\ nav.now < nav.due
  /\ nav' = [nav EXCEPT !.pc = "closing"]
  /\ UNCHANGED exceptNav

\* the navigation never completes: page.goto is rejected at its timeout, the
\* finally blocks close the page and the browser
NavGotoTimeout ==
  /\ nav.pc = "goto" /\ nav.now >= nav.due
  /\ nav' = [nav EXCEPT !.pc = "closing", !.gotoTimedOut = TRUE]
  /\ UNCHANGED exceptNav

\* page.close and closeBrowser are done: scrapeStockURL returns its envelope
NavClosed ==
  /\ nav.pc = "closing"
  /\ nav' = [nav EXCEPT !.pc = "returned",
                         !.envelope = IF nav.gotoTimedOut THEN EngineFailure(NavigationTimedOut)
                                      ELSE EngineSuccess(FreepikMetadata(NavPage))]
  /\ UNCHANGED exceptNav

\* the scrape won the race: the handler responds 400 or goes on to generate
NavAfterScrape ==
  /\ nav.pc = "returned" /\ nav.responses = <<>>
  /\ nav' = IF nav.envelope.success
            THEN [nav EXCEPT !.pc = "generating"]
            ELSE [nav EXCEPT !.pc = "finished",
                             !.responses = <<[status |-> 400, success |-> FALSE,
                                              error |-> nav.envelope.error]>>]
  /\ UNCHANGED exceptNav

\* the 45 s timer fires: the race rejects if it is still open and the handler
\* responds 500
NavDeadline ==
  /\ nav.timer = "armed" /\ nav.now >= nav.deadline
  /\ nav.pc # "returned"
  /\ nav' = IF nav.pc \in {"launch", "setup", "goto", "closing"}
            THEN [nav EXCEPT !.timer = "fired",
                             !.responses = <<[status |-> 500, success |-> FALSE,
                                              error |-> <<ScrapeTimeout>>]>>]
            ELSE [nav EXCEPT !.timer = "fired"]
  /\ UNCHANGED exceptNav

\* time passes, never beyond a timer that is due
NavTick ==
  /\ nav.now < MaxTime
  /\ nav.pc \in {"launch", "goto"} => nav.now < nav.due
  /\ nav.timer = "armed" => nav.now < nav.deadline
  /\ nav.pc # "returned"
  /\ nav' = [nav EXCEPT !.now = nav.now + Tick]
  /\ UNCHANGED exceptNav

NavStep ==
  \/ NavReceive
  \/ NavLaunchDone
  \/ NavLaunchTimeout
  \/ NavSetupDone
  \/ NavGotoDone
  \/ NavGotoTimeout
  \/ NavClosed
  \/ NavAfterScrape
  \/ NavDeadline
  \/ NavTick

(***************************************************************************)
(* The frontend: the state of AppContext (results, loadingStatus,          *)
(* settings, history, supportedProviders), the encrypted key store and     *)
(* the 'prompt_history' entry of localStorage, and the main form (its      *)
(* provider and key fields, validationStatus, the requests in flight).     *)
(***************************************************************************)
MaxValidations == 1
MaxSubmits == 2
MaxHistory == 3

\* keys typed into the form: none, an OpenAI-style one and a Gemini-style one
EmptyKey == [prefix |-> "", len |-> 0, class |-> "word"]
FormKeys ==
  { EmptyKey,
    [prefix |-> "sk-", len |-> MinKeyBody, class |-> "word"],
    [prefix |-> "", len |-> MinKeyBody, class |-> "word"] }

\* getSupportedProviders of the backend, by id, and the fallback list of the app
getSupportedProviders == providers
fallbackProviders == <<"openai", "gemini", "claude">>

Ids(list) == {list[i] : i \in 1..Len(list)}

\* validateApiKey of utils/encryption: false for a blank key and for a provider
\* without a pattern; the patterns are those of the backend's format check
clientValidateFormat(provider, k) ==
  /\ ~KeyIsBlank(k)
  /\ provider \in {"openai", "gemini", "claude"}
  /\ PatternMatches(provider, k)

\* the number of characters of a key
KeyLength(k) == PrefixLen(k) + k.len

\* maskApiKey: '****' below eight characters, else the first eight
\* characters, max(length - 12, 8) stars and the last four characters
maskApiKey(k) ==
  IF KeyLength(k) < 8 THEN [start |-> 0, stars |-> 4, end |-> 0]
  ELSE [start |-> 8, stars |-> Max(KeyLength(k) - 12, 8), end |-> 4]

NoKey == [prefix |-> "-", len |-> 0, class |-> "none"]

\* a history item: its id (Date.now().toString() of its creation), what it
\* holds (url, provider, prompt, imageData: one number here) and createdAt, a
\* Date in the state and an ISO string in JSON
HistoryItem(time, content) ==
  [id |-> time, content |-> content, createdAt |-> <<"Date", time>>]

\* the results shown: what they hold (0 when there are none)
NoResults == 0

\* the history kept by ADD_TO_HISTORY: the new item, then the first 49 old ones
HistoryCap == 50
addToHistory(history, item) ==
  <<item>> \o SubSeq(history, 1, Min(Len(history), HistoryCap - 1))

\* JSON.stringify(state.history): a Date becomes its ISO string
stringifyHistory(history) ==
  [i \in 1..Len(history) |-> [history[i] EXCEPT !.createdAt = <<"string", @[2]>>]]

\* JSON.parse(savedHistory) and createdAt: new Date(item.createdAt)
parseHistory(text) ==
  [i \in 1..Len(text) |-> [text[i] EXCEPT !.createdAt = <<"Date", @[2]>>]]

\* processedHistory.forEach(item => dispatch ADD_TO_HISTORY)
RECURSIVE dispatchEach(_, _)
dispatchEach(history, items) ==
  IF items = <<>> THEN history
  ELSE dispatchEach(addToHistory(history, Head(items)), Tail(items))

NoStatus == [status |-> "idle", provider |-> "-", apiKey |-> NoKey]

\* defaultSettings of AppContext (apiKeys: {} has no key for any provider)
DefaultSettings ==
  [apiKeys |-> [p \in Registered |-> NoKey], defaultProvider |-> "openai",
   autoSaveResults |-> TRUE]

\* the effect that saves the settings whenever they change
saveSettings(a) == [a EXCEPT !.savedSettings = a.settings]

NoApp ==
  [mounted |-> FALSE,
   supportedProviders |-> <<>>,
   loadingStatus |-> "idle",
   results |-> NoResults,
   history |-> <<>>,
   settings |-> DefaultSettings,
   secure |-> [p \in Registered |-> NoKey],
   storage |-> <<>>,
   atMount |-> <<>>,
   clock |-> 0,
   form |-> [provider |-> "openai", apiKey |-> EmptyKey],
   rememberApiKey |-> TRUE,
   validationStatus |-> NoStatus,
   validating |-> {},
   submitting |-> FALSE,
   requests |-> <<>>,
   savedSettings |-> DefaultSettings,
   exported |-> DefaultSettings.apiKeys,
   reloads |-> 0,
   loaded |-> NoResults,
   historyBefore |-> <<>>]

\* the submit button and the inputs are disabled
isLoading == app.loadingStatus \in {"analyzing", "generating"}

\* setResults: SET_RESULTS, and with autoSaveResults a new history item whose
\* id is the time; the save effect writes the history to localStorage
setResults(a, results, time) ==
  LET history == IF a.settings.autoSaveResults
                 THEN addToHistory(a.history, HistoryItem(time, results))
                 ELSE a.history
  IN [a EXCEPT !.results = results, !.history = history,
               !.storage = stringifyHistory(history)]

\* mount: the load effect reads the settings and 'prompt_history' and
\* dispatches ADD_TO_HISTORY per stored item, the save effect then writes the
\* resulting history back; AppContent starts loading the supported data
Mount ==
  /\ ~app.mounted
  /\ LET history == dispatchEach(<<>>, parseHistory(app.storage))
     IN app' = [app EXCEPT !.mounted = TRUE, !.atMount = app.storage,
                           !.settings = app.savedSettings,
                           !.history = history,
                           !.storage = stringifyHistory(history),
                           !.loadingStatus = "analyzing"]
  /\ UNCHANGED exceptApp

\* loadSupportedData: both requests answered, or the catch block's fallback
SupportedDataLoaded ==
  /\ app.mounted /\ app.supportedProviders = <<>> /\ app.loadingStatus = "analyzing"
  /\ \E list \in {getSupportedProviders, fallbackProviders} :
       app' = [app EXCEPT !.supportedProviders = list, !.loadingStatus = "idle"]
  /\ UNCHANGED exceptApp

\* the provider select changes: the saved key of the provider (or '') is put
\* in the key field, validationStatus is reset
ChangeProvider ==
  /\ app.mounted /\ ~isLoading
  /\ \E p \in Ids(app.supportedProviders) \ {app.form.provider} :
       app' = [app EXCEPT !.form = [provider |-> p,
                                    apiKey |-> IF app.secure[p] # NoKey THEN app.secure[p]
                                               ELSE EmptyKey],
                          !.validationStatus = NoStatus]
  /\ UNCHANGED exceptApp

\* the key field changes: validationStatus is reset
ChangeApiKey ==
  /\ app.mounted /\ ~isLoading
  /\ \E k \in FormKeys \ {app.form.apiKey} :
       app' = [app EXCEPT !.form.apiKey = k, !.validationStatus = NoStatus]
  /\ UNCHANGED exceptApp

\* handleValidateApiKey up to its await; the apiKey of the status records the
\* closure's currentApiKey
ClickValidate ==
  /\ app.mounted /\ ~isLoading
  /\ app.validationStatus.status # "validating"
  /\ app.form.apiKey # EmptyKey
  /\ Cardinality(app.validating) < MaxValidations
  /\ LET p == app.form.provider
         k == app.form.apiKey
     IN IF KeyIsBlank(k) THEN app' = app
        ELSE IF ~clientValidateFormat(p, k)
        THEN app' = [app EXCEPT !.validationStatus =
                                   [status |-> "invalid", provider |-> p, apiKey |-> k]]
        ELSE app' = [app EXCEPT !.validationStatus =
                                   [status |-> "validating", provider |-> p, apiKey |-> k],
                                !.validating = @ \cup {[provider |-> p, apiKey |-> k]}]
  /\ UNCHANGED exceptApp

\* handleValidateApiKey after its await: the response (or the network error)
\* of one validation request
ValidationAnswered ==
  /\ \E r \in app.validating : \E status \in {"valid", "invalid"} :
       app' = [app EXCEPT !.validating = @ \ {r},
                          !.validationStatus =
                             [status |-> status, provider |-> r.provider, apiKey |-> r.apiKey]]
  /\ UNCHANGED exceptApp

\* the 'Remember API key' checkbox
ToggleRemember ==
  /\ app.mounted /\ ~isLoading
  /\ app' = [app EXCEPT !.rememberApiKey = ~@]
  /\ UNCHANGED exceptApp

\* storeApiKey of AppContext: the key goes to the encrypted store and into
\* settings.apiKeys
storeApiKey(a, provider, k) ==
  saveSettings([a EXCEPT !.secure[provider] = k, !.settings.apiKeys[provider] = k])

\* removeApiKey of AppContext
removeApiKey(a, provider) ==
  saveSettings([a EXCEPT !.secure[provider] = NoKey, !.settings.apiKeys[provider] = NoKey])

\* the form is submitted: handleSubmit validates the fields (the key is
\* required and must pass validateApiKey) and then runs onSubmit up to its await
Submit ==
  /\ app.mounted /\ ~isLoading /\ ~app.submitting
  /\ app.clock < MaxSubmits
  /\ LET p == app.form.provider
         k == app.form.apiKey
         stored == IF app.rememberApiKey THEN storeApiKey(app, p, k) ELSE app
     IN IF k = EmptyKey \/ ~clientValidateFormat(p, k)
        THEN app' = app
        ELSE app' = saveSettings(
                      [stored EXCEPT !.settings.defaultProvider = p,
                                     !.loadingStatus = "analyzing",
                                     !.submitting = TRUE,
                                     !.requests = Append(@, [provider |-> p, apiKey |-> k])])
  /\ UNCHANGED exceptApp

\* onSubmit after its await: the result is shown, or the catch block runs
SubmitAnswered ==
  /\ app.submitting
  /\ \E ok \in BOOLEAN :
       LET a == [app EXCEPT !.submitting = FALSE, !.clock = @ + 1,
                            !.loadingStatus = IF ok THEN "complete" ELSE "error"]
       IN app' = IF ok THEN setResults(a, MaxHistory + a.clock, MaxHistory + a.clock) ELSE a
  /\ UNCHANGED exceptApp

\* the providers the settings panel has a key field for
PanelProviders == {"openai", "gemini", "claude"}

\* saveApiKey of the settings panel: an empty field removes the key, a key of
\* the right format is stored, any other is refused
SaveApiKey ==
  /\ app.mounted
  /\ \E p \in PanelProviders, k \in FormKeys :
       app' = IF k = EmptyKey THEN removeApiKey(app, p)
              ELSE IF clientValidateFormat(p, k) THEN storeApiKey(app, p, k)
              ELSE app
  /\ UNCHANGED exceptApp

\* removeApiKeyHandler of the settings panel
RemoveApiKey ==
  /\ app.mounted
  /\ \E p \in PanelProviders :
       /\ app.secure[p] # NoKey
       /\ app' = removeApiKey(app, p)
  /\ UNCHANGED exceptApp

\* the auto-save checkbox: updateSettings({autoSaveResults})
ToggleAutoSave ==
  /\ app.mounted
  /\ app' = saveSettings([app EXCEPT !.settings.autoSaveResults = ~@])
  /\ UNCHANGED exceptApp

\* resetToDefaults: the default settings, and the key store cleared
ResetToDefaults ==
  /\ app.mounted
  /\ app' = saveSettings([app EXCEPT !.settings = DefaultSettings,
                                     !.secure = [p \in Registered |-> NoKey]])
  /\ UNCHANGED exceptApp

\* exportSettings: state.settings goes into the downloaded file as it is
ExportSettings ==
  /\ app.mounted
  /\ app' = [app EXCEPT !.exported = app.settings.apiKeys]
  /\ UNCHANGED exceptApp

\* loadHistoryItem of the history panel: the item is turned into results and
\* handed to setResults; historyBefore keeps the history the panel showed
LoadHistoryItem ==
  /\ app.mounted
  /\ app.clock < MaxSubmits
  /\ \E i \in 1..Len(app.history) :
       app' = [setResults([app EXCEPT !.clock = @ + 1], app.history[i].content,
                          MaxHistory + app.clock + 1)
                 EXCEPT !.loaded = app.history[i].content, !.historyBefore = app.history]
  /\ UNCHANGED exceptApp

\* REMOVE_FROM_HISTORY, and the save effect
RemoveFromHistory ==
  /\ app.mounted
  /\ \E i \in 1..Len(app.history) :
       LET history == SelectSeq(app.history, LAMBDA item : item.id # app.history[i].id)
       IN app' = [app EXCEPT !.history = history, !.storage = stringifyHistory(history),
                             !.loaded = NoResults, !.historyBefore = <<>>]
  /\ UNCHANGED exceptApp

\* clearHistory: CLEAR_HISTORY and localStorage.removeItem; the save effect
\* then writes the empty history
ClearHistory ==
  /\ app.mounted
  /\ app.history # <<>>
  /\ app' = [app EXCEPT !.history = <<>>, !.storage = stringifyHistory(<<>>),
                        !.loaded = NoResults, !.historyBefore = <<>>]
  /\ UNCHANGED exceptApp

\* the page is reloaded: the state is gone, the browser's storage stays
MaxReloads == 1
Reload ==
  /\ app.mounted /\ app.reloads < MaxReloads
  /\ app' = [NoApp EXCEPT !.storage = app.storage, !.secure = app.secure,
                          !.savedSettings = app.savedSettings,
                          !.reloads = app.reloads + 1, !.clock = app.clock]
  /\ UNCHANGED exceptApp

(***************************************************************************)
(* The server process and its shutdown.  Requests in flight are Freepik    *)
(* scrapes, each with a browser of its own; the scraper's this.browser     *)
(* field names the browser launched last (0 when undefined).               *)
(***************************************************************************)
MaxRequests == 3
MaxSignals == 2

NoShutdown ==
  [pc |-> "running", exitCode |-> -1, forceTimer |-> "off", signals |-> 0,
   inflight |-> {}, open |-> {}, field |-> 0, launched |-> 0, cleanedUp |-> FALSE]

\* closeBrowser as cleanup and the scrapes' finally blocks run it: the browser
\* the field names is closed (or killed) and the field cleared
closeFieldBrowser(srv) ==
  IF srv.field = 0 THEN srv
  ELSE [srv EXCEPT !.open = @ \ {srv.field}, !.field = 0]

\* a request arrives while the server listens: its scrape launches a browser
\* and assigns it to the field
SrvRequest ==
  /\ server.pc = "running"
  /\ server.launched < MaxRequests
  /\ LET b == server.launched + 1
     IN server' = [server EXCEPT !.launched = b, !.inflight = @ \cup {b},
                                 !.open = @ \cup {b}, !.field = b]
  /\ UNCHANGED exceptServer

\* a scrape ends: its finally block runs closeBrowser and the response is sent
SrvRequestDone ==
  /\ server.pc # "exited"
  /\ \E b \in server.inflight :
       server' = [closeFieldBrowser(server) EXCEPT !.inflight = @ \ {b}]
  /\ UNCHANGED exceptServer

\* SIGTERM, or SIGINT (which emits SIGTERM): server.close(callback) is called
\* and the 10 s force-close timer is set
SrvSignal ==
  /\ server.pc # "exited"
  /\ server.signals < MaxSignals
  /\ server' = [server EXCEPT !.signals = @ + 1,
                              !.pc = IF @ = "running" THEN "closing" ELSE @,
                              !.forceTimer = "armed"]
  /\ UNCHANGED exceptServer

\* every connection has ended: the callback of server.close runs up to
\* await engine.cleanup()
SrvClosed ==
  /\ server.pc = "closing"
  /\ server.inflight = {}
  /\ server' = [server EXCEPT !.pc = "cleanup"]
  /\ UNCHANGED exceptServer

\* engine.cleanup() has awaited closeBrowser of every scraper (an error is
\* caught and logged); process.exit(0)
SrvCleanupDone ==
  /\ server.pc = "cleanup"
  /\ server' = [closeFieldBrowser(server) EXCEPT !.pc = "exited", !.exitCode = 0,
                                                 !.cleanedUp = TRUE]
  /\ UNCHANGED exceptServer

\* the 10 s timer fires while a request is still in flight or the cleanup
\* has not finished closing a browser: process.exit(1)
SrvForceExit ==
  /\ server.forceTimer = "armed"
  /\ \/ server.pc = "closing" /\ server.inflight # {}
     \/ server.pc = "cleanup" /\ server.open # {}
  /\ server' = [server EXCEPT !.pc = "exited", !.exitCode = 1, !.forceTimer = "fired"]
  /\ UNCHANGED exceptServer

(***************************************************************************)
(* Platform identification on its own: every URL of the bounded universe.  *)
(***************************************************************************)
\* nothing has happened outside the engine and the manager
InitRest ==
  /\ inpage = NoInPage
  /\ nav = NoNav
  /\ app = NoApp
  /\ server = NoShutdown

InitOthers ==
  /\ client = NoRequest
  /\ extract = NoExtract
  /\ endpoint = NoEndpoint
  /\ InitRest

InitIdent ==
  /\ InitServer
  /\ InitOthers
  /\ idUrl \in {u \in URLs : isValidURL(u)}
  /\ idResult = NotCalled

Identify ==
  /\ idResult = NotCalled
  /\ idResult' = identifyPlatform(idUrl)
  /\ UNCHANGED <<pc, req, loc, result, browser, browsers, idUrl, others>>

NextIdent == Identify

SpecIdent == InitIdent /\ [][NextIdent]_vars

(***************************************************************************)
(* The server handling one call at a time.                                 *)
(***************************************************************************)
Init ==
  /\ InitServer
  /\ InitOthers
  /\ idUrl = NoURL
  /\ idResult = NotCalled

ScrapeStep(c) ==
  \/ FetchDone(c)
  \/ Fetch2Done(c)
  \/ MockDone(c)
  \/ DownloadDone(c)
  \/ LaunchDone(c)
  \/ NewPageDone(c)
  \/ GotoDone(c)
  \/ EvaluateDone(c)
  \/ PageCloseDone(c)
  \/ PagesDone(c)
  \/ PagesClosed(c)
  \/ CloseDone(c)

Next ==
  \E c \in Calls :
    \/ StartScrape(c)
    \/ ScrapeStep(c)
    \/ StartGenerate(c)
    \/ GenerateDone(c)
    \/ StartValidate(c)
    \/ ValidateDone(c)
    \/ ReturnToCaller(c)

Spec == Init /\ [][Next]_vars

(***************************************************************************)
(* The server handling overlapping scrape calls.                           *)
(***************************************************************************)
NextConcurrent ==
  \E c \in Calls :
    \/ StartScrapeConcurrent(c)
    \/ ScrapeStep(c)
    \/ ReturnToCaller(c)

SpecConcurrent == Init /\ [][NextConcurrent]_vars

(***************************************************************************)
(* The frontend API client sending requests.                               *)
(***************************************************************************)
NextClient ==
  \/ SendAnalyzeUrl
  \/ SendAnalyzeAndGenerate
  \/ SendGeneratePrompt
  \/ SendValidateApiKey
  \/ ResponseReceived

SpecClient == Init /\ [][NextClient]_vars

(***************************************************************************)
(* The selector helpers applied to every document of the bounded universe. *)
(***************************************************************************)
InitExtract ==
  /\ InitServer
  /\ idUrl = NoURL
  /\ idResult = NotCalled
  /\ client = NoRequest
  /\ endpoint = NoEndpoint
  /\ InitRest
  /\ \E doc \in Documents : extract = [NoExtract EXCEPT !.doc = doc]

NextExtract ==
  \/ ExtractTitle
  \/ ExtractImageUrl
  \/ ExtractTags

SpecExtract == InitExtract /\ [][NextExtract]_vars

(***************************************************************************)
(* One request to POST /analyze-and-generate.                              *)
(***************************************************************************)
NextEndpoint ==
  \/ EpReceive
  \/ ScrapeStep(1)
  \/ EpAfterScrape
  \/ EpScrapeTimer
  \/ GenerateDone(2)
  \/ EpAfterGenerate
  \/ EpGenerateTimer

SpecEndpoint == Init /\ [][NextEndpoint]_vars

(***************************************************************************)
(* The two extractors over every DOM of the bounded universe.              *)
(***************************************************************************)
InitInPage ==
  /\ InitServer
  /\ idUrl = NoURL
  /\ idResult = NotCalled
  /\ client = NoRequest
  /\ extract = NoExtract
  /\ endpoint = NoEndpoint
  /\ nav = NoNav
  /\ app = NoApp
  /\ server = NoShutdown
  /\ \E field \in {"title", "image"} : \E dom \in DOMs(field) :
       inpage = [NoInPage EXCEPT !.field = field, !.dom = dom]

NextInPage ==
  \/ FreepikEvaluate
  \/ FreepikGeneric

SpecInPage == InitInPage /\ [][NextInPage]_vars

(***************************************************************************)
(* The timed Freepik scrape under the endpoint's deadline.                 *)
(***************************************************************************)
InitNav ==
  /\ InitServer
  /\ idUrl = NoURL
  /\ idResult = NotCalled
  /\ client = NoRequest
  /\ extract = NoExtract
  /\ endpoint = NoEndpoint
  /\ inpage = NoInPage
  /\ app = NoApp
  /\ server = NoShutdown
  /\ nav \in {[NoNav EXCEPT !.now = t] : t \in {0, Tick}}

NextNav == NavStep

SpecNav == InitNav /\ [][NextNav]_vars

(***************************************************************************)
(* The main form and the settings panel of a freshly opened application.   *)
(***************************************************************************)
InitAppOthers ==
  /\ InitServer
  /\ idUrl = NoURL
  /\ idResult = NotCalled
  /\ client = NoRequest
  /\ extract = NoExtract
  /\ endpoint = NoEndpoint
  /\ inpage = NoInPage
  /\ nav = NoNav
  /\ server = NoShutdown

InitForm ==
  /\ InitAppOthers
  /\ app = NoApp

NextForm ==
  \/ Mount
  \/ SupportedDataLoaded
  \/ ChangeProvider
  \/ ChangeApiKey
  \/ ClickValidate
  \/ ValidationAnswered
  \/ ToggleRemember
  \/ Submit
  \/ SubmitAnswered

SpecForm == InitForm /\ [][NextForm]_vars

\* every step of the form that can be taken is taken: a request in flight is
\* answered, the loading of the supported data ends
SpecFormFair ==
  /\ SpecForm
  /\ WF_vars(Mount) /\ WF_vars(SupportedDataLoaded)
  /\ WF_vars(ValidationAnswered) /\ WF_vars(SubmitAnswered)

NextSettings ==
  \/ Mount
  \/ SupportedDataLoaded
  \/ ChangeApiKey
  \/ Submit
  \/ SubmitAnswered
  \/ SaveApiKey
  \/ RemoveApiKey
  \/ ToggleAutoSave
  \/ ResetToDefaults
  \/ ExportSettings

SpecSettings == InitForm /\ [][NextSettings]_vars

(***************************************************************************)
(* The history: an application opened over a stored history.               *)
(***************************************************************************)
\* the histories an earlier session can have left: newest first
StoredHistories ==
  { [i \in 1..Len(h) |-> HistoryItem(h[i], h[i])] :
      h \in {g \in SeqsUpTo(1..MaxHistory, MaxHistory) :
                \A i, j \in 1..Len(g) : i < j => g[i] > g[j]} }

InitHistory ==
  /\ InitAppOthers
  /\ \E h \in StoredHistories : app = [NoApp EXCEPT !.storage = stringifyHistory(h)]

NextHistory ==
  \/ Mount
  \/ SupportedDataLoaded
  \/ ToggleAutoSave
  \/ LoadHistoryItem
  \/ RemoveFromHistory
  \/ ClearHistory
  \/ Reload

SpecHistory == InitHistory /\ [][NextHistory]_vars

(***************************************************************************)
(* The server from start to exit.                                          *)
(***************************************************************************)
InitShutdown ==
  /\ InitServer
  /\ idUrl = NoURL
  /\ idResult = NotCalled
  /\ client = NoRequest
  /\ extract = NoExtract
  /\ endpoint = NoEndpoint
  /\ inpage = NoInPage
  /\ nav = NoNav
  /\ app = NoApp
  /\ server = NoShutdown

NextShutdown ==
  \/ SrvRequest
  \/ SrvRequestDone
  \/ SrvSignal
  \/ SrvClosed
  \/ SrvCleanupDone
  \/ SrvForceExit

SpecShutdown == InitShutdown /\ [][NextShutdown]_vars

\* requests end, the callbacks of server.close and of the timer run
SpecShutdownFair ==
  /\ SpecShutdown
  /\ WF_vars(SrvRequestDone) /\ WF_vars(SrvClosed)
  /\ WF_vars(SrvCleanupDone) /\ WF_vars(SrvForceExit)

(***************************************************************************)
(* Properties.                                                             *)
(***************************************************************************)
Done(c, op) == pc[c] = "done" /\ req[c].op = op

\* the page offered neither a title nor an image URL to the extractor
YieldsNothing(p) == p.title = "" /\ p.image = "" /\ p.alt \in {"", "-"} /\ p.preview \in {"", "-"}

\* C1: scrapeStockURL returns success: true only with a non-empty title or a
\* non-empty imageUrl, and a call whose page yields neither a title nor an
\* image URL returns success: false.
C1_SuccessNeedsContent ==
  \A c \in Calls :
    Done(c, "scrape") =>
      /\ result[c].success => (result[c].data.title # "" \/ result[c].data.imageUrl # "")
      /\ YieldsNothing(loc[c].page) => ~result[c].success

\* C2: scrapeStockURL and generatePrompt never throw: they resolve to an
\* envelope; success: false carries a non-empty error message and no data
\* (respectively an empty prompt and confidence 0), success: true carries the
\* data / prompt and no error.
C2_AlwaysEnvelope ==
  \A c \in Calls :
    /\ Done(c, "scrape") =>
         /\ result[c].kind = "resolved"
         /\ result[c].success => (result[c].hasData /\ result[c].error = <<>>)
         /\ ~result[c].success => (NonEmptyText(result[c].error) /\ ~result[c].hasData)
    /\ Done(c, "generate") =>
         /\ result[c].kind = "resolved"
         /\ result[c].success => result[c].error = <<>>
         /\ ~result[c].success =>
              /\ NonEmptyText(result[c].error)
              /\ result[c].promptLen = 0
              /\ result[c].confidence = 0

\* a generatePrompt call whose adapter threw, recovered into a failure envelope
C2_Witness ==
  \E c \in Calls :
    /\ Done(c, "generate") /\ loc[c].dispatched
    /\ ~result[c].success /\ result[c].kind = "resolved"

\* C3: in a success result imageBase64 is present only when the download and
\* transcode of that call succeeded; a failed download leaves success: true
\* without imageBase64.
C3_Base64OnlyIfDownloaded ==
  \A c \in Calls :
    (Done(c, "scrape") /\ result[c].success) =>
      (result[c].data.imageBase64 # "" => loc[c].downloaded)

\* C4: while a call is still using the browser it launched (creating its page,
\* navigating, evaluating), no other call's closeBrowser has closed it.
C4_OwnBrowserStaysOpen ==
  \A c \in Calls :
    (pc[c] \in {"new_page", "goto", "evaluate"} /\ loc[c].mine # 0) => IsOpen(loc[c].mine)

\* C5: once all calls have settled no launched browser remains open.
C5_NoBrowserLeftOpen ==
  (\A c \in Calls : ~InFlight(c)) => \A b \in 1..Len(browsers) : ~browsers[b].open

\* C6: for a non-overlapping scrape of a requiresJS platform, on every exit
\* path the browser the call launched is closed or killed before
\* extractMetadata settles, and the scraper's browser field is undefined
\* afterwards.
C6_BrowserClosedOnExit ==
  \A c \in Calls :
    (req[c].op = "scrape" /\ loc[c].platform = "freepik" /\ pc[c] \in {"download", "done"}) =>
      /\ loc[c].mine # 0 => ~browsers[loc[c].mine].open
      /\ browser = 0

\* a Freepik scrape that launched a browser and then failed has settled
C6_Witness ==
  \E c \in Calls :
    /\ Done(c, "scrape") /\ loc[c].platform = "freepik"
    /\ loc[c].mine # 0 /\ loc[c].failed
    /\ ~browsers[loc[c].mine].open

\* the key is empty or consists of white space only
OnlyWhitespace(k) == k.prefix = "" /\ (k.len = 0 \/ k.class = "blank")

\* C7: generatePrompt rejects before dispatch: an unregistered provider with
\* an error naming the supported providers; a registered provider with an
\* empty or white-space key with 'API key is required'; otherwise a missing or
\* empty imageBase64 with 'Image data is required for AI analysis'.  In all
\* three cases the adapter is not invoked.
C7_RejectsBeforeDispatch ==
  \A c \in Calls :
    (req[c].op = "generate" /\ pc[c] # "idle") =>
      LET bad == /\ pc[c] = "done" /\ ~result[c].success /\ ~loc[c].dispatched
      IN /\ req[c].provider \notin Registered =>
              /\ bad
              /\ \A p \in Registered : \E i \in 1..Len(result[c].error) : result[c].error[i] = p
         /\ (req[c].provider \in Registered /\ OnlyWhitespace(req[c].apiKey)) =>
              (bad /\ result[c].error = <<"API key is required">>)
         /\ (req[c].provider \in Registered /\ ~OnlyWhitespace(req[c].apiKey)
               /\ req[c].image \in {"-", ""}) =>
              (bad /\ result[c].error = <<"Image data is required for AI analysis">>)

\* generatePrompt was called with a white-space key and rejected it
C7_Witness ==
  \E c \in Calls :
    /\ Done(c, "generate") /\ req[c].provider \in Registered
    /\ req[c].apiKey.class = "blank" /\ req[c].image = "/9j/base64"
    /\ result[c].error = <<"API key is required">>

\* C8: validateApiKey never invokes the adapter for a key that fails the
\* provider's format check: it returns success: true, isValid: false with
\* details.issue = 'format_invalid'.
C8_BadFormatNeverDispatched ==
  \A c \in Calls :
    (req[c].op = "validate" /\ pc[c] # "idle" /\ req[c].provider \in Registered
       /\ ~validateFormat(req[c].provider, req[c].apiKey)) =>
      /\ pc[c] = "done" /\ ~loc[c].dispatched
      /\ result[c].success /\ ~result[c].isValid
      /\ result[c].details = "format_invalid"

\* validateApiKey("openai", "short") was answered
C8_Witness ==
  \E c \in Calls :
    /\ Done(c, "validate") /\ req[c].provider = "openai"
    /\ req[c].apiKey = [prefix |-> "", len |-> 5, class |-> "word"]
    /\ result[c].details = "format_invalid"

\* a key as the provider's vendor issues them
VendorKeyShape(provider, k) ==
  /\ k.class = "word" /\ k.len >= MinKeyBody
  /\ k.prefix = CASE provider = "gemini" -> "" [] provider = "claude" -> "sk-ant-" [] OTHER -> "sk-"

\* C9: for every registered provider, validateApiKey with a key of the
\* vendor's shape passes the format check and reaches the adapter.
C9_VendorKeyReachesAdapter ==
  \A c \in Calls :
    (req[c].op = "validate" /\ pc[c] # "idle" /\ req[c].provider \in Registered
       /\ VendorKeyShape(req[c].provider, req[c].apiKey)) => loc[c].dispatched

\* the platforms whose domain the URL's host is, or is a subdomain of
HostPlatforms(url) ==
  {i \in 1..Len(platformPatterns) :
     \E a \in 1..Len(platformPatterns[i].alts) : IsSuffix(platformPatterns[i].alts[a], url.host)}

\* C10: identifyPlatform returns a platform's id for every URL whose host is
\* that platform's domain, and fails for a URL whose host matches no supported
\* domain with an error that lists every known domain.
C10_IdentifyByHost ==
  idResult # NotCalled =>
    /\ \A i \in HostPlatforms(idUrl) :
         idResult.ok /\ idResult.platform = platformPatterns[i].id
    /\ HostPlatforms(idUrl) = {} =>
         /\ ~idResult.ok
         /\ \A p \in PlatformIds :
              \E i \in 1..Len(idResult.error) :
                idResult.error[i] = DomainString(getSupportedPlatforms[p])

\* the fragments of the adapters' and vendors' messages that contain
\* "rate limit" (in any letter case)
RateLimitTexts ==
  {"Gemini API rate limit exceeded", "Claude API rate limit exceeded",
   "Rate limit reached for requests"}

MentionsRateLimit(message) ==
  \E i \in 1..Len(message) : message[i] \in RateLimitTexts

\* C11: for every adapter, a vendor response with HTTP status 429 makes
\* generatePrompt return success: false with a message containing "rate limit".
C11_RateLimitNamed ==
  \A c \in Calls :
    (Done(c, "generate") /\ loc[c].vendor.kind = "err" /\ loc[c].vendor.status = 429) =>
      (~result[c].success /\ MentionsRateLimit(result[c].error))

\* the vendor answered 2xx without usable text: no choices / candidates /
\* content at all, or a text that is missing, empty or white space only
NoUsableText(v) ==
  v.kind = "ok" /\ (v.shape = "hollow" \/ v.text.len = 0 \/ v.text.blank)

\* C12: a success result of generatePrompt carries a non-empty prompt, and a
\* vendor response without usable text is reported as success: false.
C12_SuccessHasPrompt ==
  \A c \in Calls :
    Done(c, "generate") =>
      /\ result[c].success => result[c].promptLen > 0
      /\ NoUsableText(loc[c].vendor) => ~result[c].success

\* C13: no request the frontend API client sends to the backend
\* (analyze-and-generate, generate-prompt, validate-api-key) contains the
\* API key.
C13_KeyStaysInBrowser ==
  client.endpoint \in {"/analyze-and-generate", "/generate-prompt", "/validate-api-key"} =>
    "apiKey" \notin DOMAIN client.body

\* the selectors of the list that yield non-empty content, by position
Yielding(doc) == {i \in 1..Len(doc) : selectorContent(doc[i]) # <<>>}

\* the content of the first selector that yields any
FirstYield(doc) ==
  selectorContent(doc[CHOOSE i \in Yielding(doc) : \A j \in Yielding(doc) : i <= j])

\* C14: a scalar field is the value of the first selector in priority order
\* that yields non-empty content (as it is, or cleaned of surrounding
\* punctuation and white space), and it is the empty string only when no
\* selector of the list yields non-empty content.
C14_FirstSelectorWins ==
  /\ "image" \in extract.done =>
       IF Yielding(extract.doc) = {} THEN extract.imageUrl = <<>>
       ELSE extract.imageUrl = FirstYield(extract.doc)
  /\ "title" \in extract.done =>
       IF Yielding(extract.doc) = {} THEN extract.title = <<>>
       ELSE /\ extract.title # <<>>
            /\ extract.title \in {FirstYield(extract.doc), cleanText(FirstYield(extract.doc))}

\* the texts of all matched elements in discovery order: selector-list
\* order, then document order
RECURSIVE Discovered(_)
Discovered(doc) ==
  IF doc = <<>> THEN <<>>
  ELSE [k \in 1..Len(doc[1]) |-> cleanText(doc[1][k].text)] \o Discovered(Tail(doc))

\* where x is discovered first
FirstAt(d, x) == CHOOSE i \in 1..Len(d) : d[i] = x /\ \A j \in 1..(i - 1) : d[j] # x

\* C15: the extracted tags contain no two equal strings, appear in order of
\* first discovery, and a second extraction from the same page yields the
\* identical sequence.
C15_TagsDistinctOrdered ==
  \A r \in 1..Len(extract.runs) :
    LET tags == extract.runs[r]
        d == Discovered(extract.doc)
    IN /\ \A i, j \in 1..Len(tags) : i # j => tags[i] # tags[j]
       /\ \A i \in 1..Len(tags) : \E k \in 1..Len(d) : d[k] = tags[i]
       /\ \A i, j \in 1..Len(tags) : i < j => FirstAt(d, tags[i]) <= FirstAt(d, tags[j])
       /\ tags = extract.runs[1]

\* the absolute http(s) URLs among the modelled image URLs
AbsoluteImageUrls ==
  {"https://cdn/260x280/a.jpg", "https://image.shutterstock.com/260x280/a.jpg",
   "https://image.shutterstock.com/1500x1500/a.jpg", "https://via.placeholder.com/800x600.jpg"}

\* C16: in every success result data.imageUrl is the empty string or an
\* absolute http(s) URL, and an image download is attempted only for an
\* absolute URL.
C16_ImageUrlAbsolute ==
  \A c \in Calls :
    /\ (Done(c, "scrape") /\ result[c].success) =>
         (result[c].data.imageUrl = "" \/ result[c].data.imageUrl \in AbsoluteImageUrls)
    /\ pc[c] = "download" => loc[c].meta.imageUrl \in AbsoluteImageUrls

\* C17: the confidence generatePrompt returns lies in [0,1] (0..100
\* hundredths) for every accepted vendor response, and is exactly 0 on every
\* failure.
C17_ConfidenceInRange ==
  \A c \in Calls :
    Done(c, "generate") =>
      /\ result[c].confidence >= 0 /\ result[c].confidence <= 100
      /\ ~result[c].success => result[c].confidence = 0

\* Claude answered with a complete text of ideal length and healthy token
\* usage: the sum 0.8 + 0.1 + 0.1 + 0.05 was cut to 1
C17_Witness ==
  \E c \in Calls :
    /\ Done(c, "generate") /\ result[c].success /\ req[c].provider = "claude"
    /\ loc[c].vendor.finish = "complete" /\ loc[c].vendor.text.len = 150
    /\ loc[c].vendor.usage = "healthy"
    /\ result[c].confidence = 100

\* the response the handler sends when a timer wins its race
TimeoutResponse(message) == [status |-> 500, success |-> FALSE, error |-> <<message>>]

\* what holds of every state of a request to the combined endpoint
EndpointInvariant ==
  /\ Len(endpoint.responses) <= 1
  /\ endpoint.pc = "finished" <=> Len(endpoint.responses) = 1
  /\ endpoint.pc = "scraping" => endpoint.scrapeTimer = "armed"
  /\ endpoint.pc = "generating" => endpoint.genTimer = "armed"
  /\ (endpoint.scrapeTimer = "fired" /\ InFlight(1)) =>
       endpoint.responses = <<TimeoutResponse(ScrapeTimeout)>>
  /\ (endpoint.genTimer = "fired" /\ InFlight(2)) =>
       endpoint.responses = <<TimeoutResponse(GenerateTimeout)>>
  /\ endpoint.genStarted =>
       /\ pc[1] = "done" /\ result[1].success /\ result[1].hasData
       /\ endpoint.responses # <<TimeoutResponse(ScrapeTimeout)>>

\* a response that was sent stays the only one, and no generation is started
\* after it
ResponseIsFinal ==
  endpoint.responses # <<>> =>
    /\ endpoint'.responses = endpoint.responses
    /\ endpoint'.genStarted = endpoint.genStarted

\* C18: for each request to POST /analyze-and-generate exactly one response
\* is sent in every interleaving of the completions and the timers; a timer
\* that fires while its stage is pending makes the response that timeout's
\* error and the stage's late result is discarded; generation is started only
\* after the scrape returned success with data, never after a scrape timeout.
C18_OneResponsePerRequest == []EndpointInvariant /\ [][ResponseIsFinal]_vars

\* the 45 s timer won, and the abandoned scrape later completed successfully
C18_Witness ==
  /\ endpoint.scrapeTimer = "fired"
  /\ pc[1] = "done" /\ result[1].success
  /\ endpoint.responses = <<TimeoutResponse(ScrapeTimeout)>>
  /\ ~endpoint.genStarted

\* the steps of scrapeStockURL in the order the call must take them
StepOrder == <<"validate", "identify", "extract", "check", "download">>

\* the steps a call has taken are an initial part of StepOrder (so each was
\* taken at most once), and a failed step is the last one taken
StepsInOrder(c) ==
  /\ Len(loc[c].steps) <= Len(StepOrder)
  /\ \A i \in 1..Len(loc[c].steps) : loc[c].steps[i] = StepOrder[i]
  /\ pc[c] # "idle" => Len(loc[c].steps) >= 1
  /\ ~isValidURL(req[c].url) => (loc[c].steps = <<"validate">> /\ Done(c, "scrape"))
  /\ loc[c].failed => loc[c].steps = <<"validate", "identify", "extract">>
  /\ (Done(c, "scrape") /\ loc[c].steps # StepOrder /\ loc[c].meta.imageUrl # "") =>
       (result[c].kind = "resolved" /\ ~result[c].success)
  /\ (Done(c, "scrape") /\ Len(loc[c].steps) < 4) =>
       (result[c].kind = "resolved" /\ ~result[c].success)

\* C19: the steps of a scrapeStockURL call run in the order validate,
\* identify, extract, minimal-content check, download, each at most once; a
\* failing step other than the download ends the call with a failure envelope;
\* no extractor is started for an invalid URL or for a URL whose host is no
\* supported platform's domain.
C19_StepsOnceInOrder ==
  \A c \in Calls :
    req[c].op = "scrape" =>
      /\ StepsInOrder(c)
      /\ (~isValidURL(req[c].url) \/ HostPlatforms(req[c].url) = {}) =>
           (Len(loc[c].steps) <= 2 /\ pc[c] \in {"idle", "done"})

\* the ordering part of C19 on its own
C19_OrderOnly == \A c \in Calls : req[c].op = "scrape" => StepsInOrder(c)

\* the generic path of the call's extractor succeeded: its page was fetched
GenericSucceeded(c) == loc[c].page # NoPage

\* C20: for Shutterstock and Adobe Stock, a failure while obtaining or
\* applying the enhancements never fails an extraction whose generic path
\* succeeded.
C20_EnhancementsBestEffort ==
  \A c \in Calls :
    (Done(c, "scrape") /\ ScraperKind(loc[c].platform) = "enhanced" /\ GenericSucceeded(c)) =>
      ~loc[c].failed

\* the scrape of the request succeeded and its metadata carries no imageBase64
ScrapedWithoutImage ==
  /\ endpoint.pc \in {"generating", "finished"}
  /\ pc[1] = "done" /\ result[1].success /\ result[1].hasData
  /\ result[1].data.imageBase64 = ""

ImageRequired == <<"Image data is required for AI analysis">>

\* the responses the request has been given are exactly one 400 with this error
Only400(error) ==
  endpoint.responses = <<[status |-> 400, success |-> FALSE, error |-> error]>>

\* generatePrompt returned without calling the adapter, with this error
RefusedBeforeDispatch(error) ==
  /\ pc[2] = "done" /\ ~loc[2].dispatched /\ loc[2].vendor = NoVendor
  /\ result[2] = ManagerFailure(error)

C22_InPageMatchesGeneric ==
  (inpage.evaluated # NotExtracted /\ inpage.generic # NotExtracted) =>
    inpage.evaluated = inpage.generic

\* C23: for a JS-rendering scrape called from the combined endpoint, a
\* navigation that never completes always surfaces as the typed
\* extraction-failure envelope of scrapeStockURL before the caller's 45 s
\* timeout fires: the response is never the scrape-timeout error.
C23_NavigationFailsBeforeDeadline ==
  nav.gotoTimedOut =>
    /\ nav.responses # <<[status |-> 500, success |-> FALSE, error |-> <<ScrapeTimeout>>]>>
    /\ nav.pc = "finished" =>
         nav.responses = <<[status |-> 400, success |-> FALSE, error |-> NavigationTimedOut]>>

\* C24: whenever validationStatus is 'valid', the provider and the API key
\* in the form are the ones that were validated: a change of either resets
\* the status, and the response to an earlier validation request never sets
\* it after that reset.
C24_ValidMeansCurrentKey ==
  app.validationStatus.status = "valid" =>
    /\ app.validationStatus.provider = app.form.provider
    /\ app.validationStatus.apiKey = app.form.apiKey

\* C25: after a form submission finished with loadingStatus 'complete' or
\* 'error', loadingStatus eventually returns to 'idle'.
C25_LoadingReturnsToIdle ==
  (app.loadingStatus \in {"complete", "error"}) ~> (app.loadingStatus = "idle")

\* a value of settings.apiKeys that shows no key: absent, or a mask
MaskedOrAbsent(v) == v = NoKey \/ \E k \in ApiKeys : v = maskApiKey(k)

\* C26: state.settings.apiKeys, and so the exported settings file, never holds
\* an API key in clear text: at most masked keys.
C26_SettingsHoldNoClearKey ==
  \A p \in Registered :
    /\ MaskedOrAbsent(app.settings.apiKeys[p])
    /\ MaskedOrAbsent(app.exported[p])

\* C27: every provider offered by getSupportedProviders, openai-fast
\* included, is usable from the main form: for each provider the form offers
\* there is an API key with which the submission passes the client-side
\* format check and the analyze-and-generate request is issued.
C27_EveryOfferedProviderUsable ==
  \A p \in Ids(app.supportedProviders) :
    \E k \in ApiKeys \ {EmptyKey} : clientValidateFormat(p, k)

\* C28: loading the history that was saved to localStorage restores the same
\* items in the same newest-first order: load(save(h)) = h.
C28_HistoryRoundTrip ==
  [][(~app.mounted /\ app'.mounted) =>
       stringifyHistory(app'.history) = app.storage]_vars

\* C29: loading an item from the history panel replaces the displayed
\* results and leaves the history unchanged, whatever autoSaveResults is.
C29_LoadLeavesHistory ==
  app.loaded # NoResults =>
    /\ app.results = app.loaded
    /\ app.history = app.historyBefore

\* the process exits once it was signalled
ExitsAfterSignal == (server.signals > 0) ~> (server.pc = "exited")

\* at exit the engine's cleanup has run and no browser is open
ExitIsClean == server.pc = "exited" => (server.cleanedUp /\ server.open = {})

\* C30: after SIGTERM or SIGINT the server process always eventually exits,
\* and it exits only after the scraping engine's cleanup has run and closed
\* every open browser.
C30_ExitsAfterCleanup == ExitsAfterSignal /\ []ExitIsClean

====
